---- MODULE Spec2Model ----
(***************************************************************************)
(* Model of the infinite-edit webview canvas: the MaskManager registry and *)
(* MaskedHitArea (core/MaskManager), the Grid redraw cache (canvas/Grid),  *)
(* the EditorNode drag / resize / z-order controller (nodes/EditorNode),   *)
(* the NodeLayoutManager, CanvasManager and MessageClient, the extension   *)
(* host's MessageBus and InfiniteEditPanel, the ModelManager, and the      *)
(* content synchronisation between an editor and the host's document.      *)
(*                                                                         *)
(* Lengths are integers in pixels.  A scale s is the fixed-point integer   *)
(* s * ScaleDen.  The inputs of the node specification are multiples of 4  *)
(* pixels under the scales 1/2, 1 and 2, so every division there is exact. *)
(***************************************************************************)
EXTENDS Integers, Sequences, FiniteSets, TLC

VARIABLES
    \* ---- MaskManager / MaskedHitArea
    providers,        \* MaskManager.providers: sequence of provider handles
    consumers,        \* MaskManager.consumers: sequence of consumer handles
    maskBounds,       \* what each provider's getMaskGlobalBounds() returns now
    baseArea,         \* MaskedHitArea.baseArea
    notified,         \* onMaskUpdate calls made by the last operation, in order
    gridMask,         \* Grid.maskGraphics: what its last updateMask read from
                      \* the providers and the holes it cut
    provReg,          \* history: handles registered and not since unregistered
    provBefore,       \* history: <<p, q>> when p's live registration precedes q's
    consReg,          \* history, as provReg, for consumers
    consBefore,       \* history, as provBefore, for consumers
    provGone,         \* history: handles unregistered and not registered since
    \* ---- content root transform (CanvasManager.contentContainer) and Grid
    panX, panY,       \* contentContainer.x / .y, screen pixels
    zoomLevel,        \* CanvasManager.zoomLevel, in tenths of a level
    scaleQ,           \* contentContainer.scale.x * ScaleDen
    lastDrawnBounds,  \* Grid.lastDrawnBounds
    lastScale,        \* Grid.lastScale * ScaleDen, or -1 before the first draw
    redrawCount,      \* probe: Grid.redraw calls made by the last operation
    canvasDragging,   \* CanvasManager.isDragging (background pan in progress)
    lastPos,          \* CanvasManager.lastPos, or Null
    \* ---- EditorNode
    nodes,            \* per node: the fields of EditorNode
    globalMaxZIndex,  \* EditorNode.globalMaxZIndex (static)
    children,         \* contentContainer.children, in order
    dragProbe,        \* history: per node, pointer and position at drag start
    \* ---- NodeLayoutManager
    layoutNodes,      \* NodeLayoutManager.nodes: Map entries in insertion order
    focusedNodePath,  \* NodeLayoutManager.focusedNodePath, or Null
    regRecency,       \* history: registered paths, latest registerNode call last
    insertOrder,      \* history: registered paths, by the registerNode call
                      \* that made them registered
    \* ---- CanvasManager, the editors it holds
    canvasNodes,      \* CanvasManager.nodes, in order
    editors,          \* per constructed node: file path, editor content,
                      \* markers, and the state of its model reference
    \* ---- MessageClient
    requestIdCounter, \* MessageClient.requestIdCounter
    pendingRequests,  \* MessageClient.pendingRequests: Map entries, the value
                      \* being the place of the request's promise in promises
    promises,         \* history: the promise of every request() call, in order
    \* ---- extension host: MessageBus and InfiniteEditPanel
    isReady,          \* InfiniteEditPanel._isReady
    pendingMessages,  \* InfiniteEditPanel._pendingMessages
    posted,           \* history: webview.postMessage calls of the host, in order
    handling,         \* MessageBus.handleMessage calls awaiting their handler
    received,         \* history: the messages handleMessage was called with
    openCalls,        \* history: number of InfiniteEditPanel.openFile calls
    \* ---- the webview's window: time and setTimeout
    now,              \* milliseconds since the page was loaded
    timers,           \* the timeouts set, not yet fired and not cleared:
                      \* handle, time left, and what the callback is for
    timerCount,       \* number of setTimeout calls made; the next handle
    \* ---- ModelManager
    models,           \* ModelManager.models: per key, the place of its
                      \* ManagedModel in managed, or 0
    managed,          \* every ManagedModel created, with its model's content
    modelRefs,        \* every IModelReference handed out: its ManagedModel
                      \* and its disposed flag
    saving,           \* saveModel calls awaiting their 'saveFile' request
    fetching,         \* getOrCreateTemporaryModelReference calls awaiting
                      \* their 'getFileContent' request
    \* ---- one EditorNode's content against the host's document
    edContent,        \* monacoInstance.getValue()
    contentChangeTimeout, \* EditorNode.contentChangeTimeout
    destroyed,        \* destroy() has run
    typed,            \* history: the user's changes: time and content
    toHost,           \* 'updateFile' messages posted, not yet handled
    hostDoc,          \* the host's TextDocument: its text
    toWebview,        \* 'didChangeTextDocument' messages posted, not yet
                      \* handled
    sentUpdates,      \* history: every 'updateFile' sent, with its time
    \* ---- every specification
    lastOp            \* the operation that produced this state, with its inputs

maskVars == <<providers, consumers, maskBounds, baseArea, notified, gridMask,
              provReg, provBefore, consReg, consBefore, provGone>>
viewVars == <<panX, panY, zoomLevel, scaleQ>>
gridVars == <<lastDrawnBounds, lastScale, redrawCount>>
panVars == <<canvasDragging, lastPos>>
nodeVars == <<nodes, globalMaxZIndex, children, dragProbe>>
layoutVars == <<layoutNodes, focusedNodePath, regRecency, insertOrder>>
\* the components modelled further below
canvasVars == <<canvasNodes, editors>>
messageVars == <<requestIdCounter, pendingRequests, promises>>
hostVars == <<isReady, pendingMessages, posted, handling, received, openCalls>>
clockVars == <<now, timers, timerCount>>
modelVars == <<models, managed, modelRefs, saving, fetching>>
syncVars == <<edContent, contentChangeTimeout, destroyed, typed, toHost, hostDoc,
              toWebview, sentUpdates>>
extVars == <<clockVars, modelVars, syncVars>>
otherVars == <<layoutVars, canvasVars, messageVars, hostVars, extVars>>
vars == <<maskVars, viewVars, gridVars, panVars, nodeVars, otherVars, lastOp>>

Null == [null |-> TRUE]

Range(s) == {s[i] : i \in 1..Len(s)}

Rect(x, y, w, h) == [x |-> x, y |-> y, width |-> w, height |-> h]

Point(x, y) == [x |-> x, y |-> y]

(***************************************************************************)
(* Handles                                                                 *)
(***************************************************************************)
NodeIds == {"a", "b"}
ProviderHandles == {"toolbar"} \cup NodeIds
\* the Grid of a canvas, and the consumers of the registry on its own
GridHandle == "grid"
ConsumerHandles == {"probe", "overlay"}

(***************************************************************************)
(* Bounds of the model                                                     *)
(***************************************************************************)
\* hit-test probe points run over (-1..MaxProbe) x (-1..MaxProbe)
MaxProbe == 5

(***************************************************************************)
(* Fixed-point arithmetic                                                  *)
(***************************************************************************)
ScaleDen == 100000

Abs(v) == IF v < 0 THEN -v ELSE v
Max(u, v) == IF u >= v THEN u ELSE v
Min(u, v) == IF u <= v THEN u ELSE v

\* ceiling of a / b for b > 0 (a \div b is the floor)
CeilDiv(a, b) == -((-a) \div b)

\* Math.floor(v / m) * m and Math.ceil(v / m) * m
FloorTo(v, m) == (v \div m) * m
CeilTo(v, m) == CeilDiv(v, m) * m

(***************************************************************************)
(* MaskManager                                                             *)
(***************************************************************************)
\* Array.prototype.includes
Includes(list, h) == \E i \in 1..Len(list) : list[i] = h

\* Array.prototype.indexOf, 1-based; 0 stands for JavaScript's -1
IndexOf(list, h) ==
    IF Includes(list, h)
    THEN CHOOSE i \in 1..Len(list) :
            list[i] = h /\ \A j \in 1..(i - 1) : list[j] # h
    ELSE 0

\* Array.prototype.splice(index, 1) on a 1-based index
Splice1(list, i) ==
    [k \in 1..(Len(list) - 1) |-> IF k < i THEN list[k] ELSE list[k + 1]]

\* mutant of RegisterIn: push without the includes() test
RegisterIn_NoIncludesTest(list, h) == Append(list, h)

\* registerProvider / registerConsumer: push unless already included
RegisterIn(list, h) == IF ~Includes(list, h) THEN Append(list, h) ELSE list

\* mutant of UnregisterFrom: splice without the index !== -1 test, where
\* splice(-1, 1) removes the last element
UnregisterFrom_NoIndexTest(list, h) ==
    IF IndexOf(list, h) # 0 THEN Splice1(list, IndexOf(list, h))
    ELSE IF Len(list) > 0 THEN Splice1(list, Len(list)) ELSE list

\* unregisterProvider / unregisterConsumer: splice at indexOf unless -1
UnregisterFrom(list, h) ==
    IF IndexOf(list, h) # 0 THEN Splice1(list, IndexOf(list, h)) ELSE list

\* mutant of Deliveries: the loop starts at the second consumer
Deliveries_SkipFirst(cons, provs) ==
    [i \in 1..(Len(cons) - 1) |-> [consumer |-> cons[i + 1], providers |-> provs]]

\* MaskManager.update: one onMaskUpdate(this.providers) per consumer, in order
Deliveries(cons, provs) ==
    [i \in 1..Len(cons) |-> [consumer |-> cons[i], providers |-> provs]]

\* history of live registrations, kept apart from the lists
RegSet(reg, h) == reg \cup {h}
RegOrder(reg, before, h) ==
    IF h \in reg THEN before ELSE before \cup {<<q, h>> : q \in reg}
UnregSet(reg, h) == reg \ {h}
UnregOrder(before, h) == {pq \in before : pq[1] # h /\ pq[2] # h}

registerProvider(p) ==
    /\ providers' = RegisterIn(providers, p)
    /\ provReg' = RegSet(provReg, p)
    /\ provBefore' = RegOrder(provReg, provBefore, p)
    /\ notified' = <<>>
    /\ provGone' = provGone \ {p}
    /\ lastOp' = [op |-> "registerProvider", h |-> p, registered |-> p \in provReg]
    /\ UNCHANGED <<consumers, maskBounds, baseArea, gridMask, consReg, consBefore>>
    /\ UNCHANGED <<viewVars, gridVars, panVars, nodeVars, otherVars>>

unregisterProvider(p) ==
    /\ providers' = UnregisterFrom(providers, p)
    /\ provReg' = UnregSet(provReg, p)
    /\ provBefore' = UnregOrder(provBefore, p)
    /\ notified' = <<>>
    /\ provGone' = IF p \in provReg THEN provGone \cup {p} ELSE provGone
    /\ lastOp' = [op |-> "unregisterProvider", h |-> p, registered |-> p \in provReg]
    /\ UNCHANGED <<consumers, maskBounds, baseArea, gridMask, consReg, consBefore>>
    /\ UNCHANGED <<viewVars, gridVars, panVars, nodeVars, otherVars>>

\* mutant of registerConsumer: the registration runs an update
registerConsumer_Notifying(c) ==
    /\ consumers' = RegisterIn(consumers, c)
    /\ consReg' = RegSet(consReg, c)
    /\ consBefore' = RegOrder(consReg, consBefore, c)
    /\ notified' = Deliveries(consumers', providers)
    /\ lastOp' = [op |-> "registerConsumer", h |-> c, registered |-> c \in consReg]
    /\ UNCHANGED <<providers, maskBounds, baseArea, gridMask,
                   provReg, provBefore, provGone>>
    /\ UNCHANGED <<viewVars, gridVars, panVars, nodeVars, otherVars>>

registerConsumer(c) ==
    /\ consumers' = RegisterIn(consumers, c)
    /\ consReg' = RegSet(consReg, c)
    /\ consBefore' = RegOrder(consReg, consBefore, c)
    /\ notified' = <<>>
    /\ lastOp' = [op |-> "registerConsumer", h |-> c, registered |-> c \in consReg]
    /\ UNCHANGED <<providers, maskBounds, baseArea, gridMask,
                   provReg, provBefore, provGone>>
    /\ UNCHANGED <<viewVars, gridVars, panVars, nodeVars, otherVars>>

unregisterConsumer(c) ==
    /\ consumers' = UnregisterFrom(consumers, c)
    /\ consReg' = UnregSet(consReg, c)
    /\ consBefore' = UnregOrder(consBefore, c)
    /\ notified' = <<>>
    /\ lastOp' = [op |-> "unregisterConsumer", h |-> c, registered |-> c \in consReg]
    /\ UNCHANGED <<providers, maskBounds, baseArea, gridMask,
                   provReg, provBefore, provGone>>
    /\ UNCHANGED <<viewVars, gridVars, panVars, nodeVars, otherVars>>

\* what p.getMaskGlobalBounds() returns, given the rectangle of every
\* provider: the toolbar returns a Rectangle, an EditorNode an array of
\* Rectangles, which holds its own rectangle alone when it has no popup
\* widget open
Report(p, geom) == IF p \in NodeIds THEN [items |-> <<geom[p]>>] ELSE geom[p]

ReportsOf(provs, geom) == [i \in 1..Len(provs) |-> Report(provs[i], geom)]

\* Container.toLocal of the Grid, a child of the content root at (px, py)
\* with scale s / ScaleDen; whole world pixels
GridToLocal(px, py, s, g) ==
    Point(((g.x - px) * ScaleDen) \div s, ((g.y - py) * ScaleDen) \div s)

\* a rectangle whose coordinates are NaN
NaNRect == [nan |-> TRUE]

\* the rectangle Grid.updateMask cuts for one provider: it reads x, y, width
\* and height of what getMaskGlobalBounds() returned, which are undefined on
\* an array, so that every coordinate of the cut is NaN
HoleOf(px, py, s, report) ==
    IF "x" \in DOMAIN report
    THEN LET tl == GridToLocal(px, py, s, Point(report.x, report.y))
             br == GridToLocal(px, py, s, Point(report.x + report.width,
                                                report.y + report.height))
         IN  Rect(tl.x, tl.y, br.x - tl.x, br.y - tl.y)
    ELSE NaNRect

\* Grid.updateMask: maskGraphics.clear(), then one cut per provider
UpdateMask(px, py, s, reports) ==
    [reports |-> reports,
     holes |-> [i \in 1..Len(reports) |-> HoleOf(px, py, s, reports[i])]]

\* the Grid's mask after MaskManager.update() over the given registry
MaskAfterUpdate(cons, provs, geom, px, py, s, old) ==
    IF Includes(cons, GridHandle) THEN UpdateMask(px, py, s, ReportsOf(provs, geom))
    ELSE old

\* the state change of MaskManager.update(), shared by its callers, under
\* the transform of the next state
\* EditorNode.getMaskGlobalBounds under the content root transform
\* (px, py, sq): toGlobal of (0, 0) and of (width, height); no editor popup
\* widget is open
GlobalBoundsUnder(px, py, sq, nd) ==
    LET tlx == px + (nd.x * sq) \div ScaleDen
        tly == py + (nd.y * sq) \div ScaleDen
        brx == px + ((nd.x + nd.width_) * sq) \div ScaleDen
        bry == py + ((nd.y + nd.height_) * sq) \div ScaleDen
    IN  Rect(Min(tlx, brx), Min(tly, bry), Abs(brx - tlx), Abs(bry - tly))

\* what getMaskGlobalBounds() of every provider returns under that transform:
\* a node follows the content root, the other providers stay where they are
LiveBounds(px, py, sq, nds) ==
    [p \in ProviderHandles |->
        IF p \in DOMAIN nds THEN GlobalBoundsUnder(px, py, sq, nds[p])
        ELSE maskBounds[p]]

MaskUpdate ==
    /\ notified' = Deliveries(consumers, providers)
    /\ maskBounds' = LiveBounds(panX', panY', scaleQ', nodes)
    /\ gridMask' = MaskAfterUpdate(consumers, providers, maskBounds',
                                   panX', panY', scaleQ', gridMask)
    /\ UNCHANGED <<providers, consumers, baseArea,
                   provReg, provBefore, consReg, consBefore, provGone>>

update ==
    /\ UNCHANGED <<viewVars, gridVars, panVars, nodeVars, otherVars>>
    /\ MaskUpdate
    /\ lastOp' = [op |-> "update"]

(***************************************************************************)
(* MaskedHitArea                                                           *)
(***************************************************************************)
\* pixi Rectangle.contains, as called on baseArea and on provider bounds
RectContains(r, x, y) ==
    IF r.width <= 0 \/ r.height <= 0 THEN FALSE
    ELSE /\ x >= r.x /\ x < r.x + r.width
         /\ y >= r.y /\ y < r.y + r.height

\* the loop of MaskedHitArea.contains over getProviders(), from index i on
RECURSIVE NoProviderContains(_, _, _, _, _)
NoProviderContains(provs, geom, i, x, y) ==
    IF i > Len(provs) THEN TRUE
    ELSE IF RectContains(geom[provs[i]], x, y) THEN FALSE
    ELSE NoProviderContains(provs, geom, i + 1, x, y)

\* mutant of HitAreaContains: only the first provider is tested
HitAreaContains_FirstOnly(base, provs, geom, x, y) ==
    IF ~RectContains(base, x, y) THEN FALSE
    ELSE IF Len(provs) > 0 /\ RectContains(geom[provs[1]], x, y) THEN FALSE
    ELSE TRUE

\* MaskedHitArea.contains(x, y)
HitAreaContains(base, provs, geom, x, y) ==
    IF ~RectContains(base, x, y) THEN FALSE
    ELSE NoProviderContains(provs, geom, 1, x, y)

contains(x, y) ==
    /\ lastOp' = [op |-> "contains", x |-> x, y |-> y,
                  result |-> HitAreaContains(baseArea, providers, maskBounds, x, y)]
    /\ notified' = <<>>
    /\ UNCHANGED <<providers, consumers, maskBounds, baseArea, gridMask,
                   provReg, provBefore, consReg, consBefore, provGone>>
    /\ UNCHANGED <<viewVars, gridVars, panVars, nodeVars, otherVars>>

\* mutant of updateBaseArea: the hit area is built anew over an empty registry
updateBaseArea_Reset(newArea) ==
    /\ baseArea' = newArea
    /\ providers' = <<>>
    /\ notified' = <<>>
    /\ lastOp' = [op |-> "updateBaseArea"]
    /\ UNCHANGED <<consumers, maskBounds, gridMask,
                   provReg, provBefore, consReg, consBefore, provGone>>
    /\ UNCHANGED <<viewVars, gridVars, panVars, nodeVars, otherVars>>

\* MaskedHitArea.updateBaseArea
updateBaseArea(newArea) ==
    /\ baseArea' = newArea
    /\ notified' = <<>>
    /\ lastOp' = [op |-> "updateBaseArea"]
    /\ UNCHANGED <<providers, consumers, maskBounds, gridMask,
                   provReg, provBefore, consReg, consBefore, provGone>>
    /\ UNCHANGED <<viewVars, gridVars, panVars, nodeVars, otherVars>>

\* a provider's geometry changes (a node is moved or resized)
BoundsChoices == {Rect(0, 1, 3, 3), Rect(2, 0, 3, 4)}
BaseChoices == {Rect(0, 0, 5, 4), Rect(0, 0, 4, 5)}
ToolbarBounds == Rect(0, 0, 3, 1)

moveProvider(p, r) ==
    /\ maskBounds' = [maskBounds EXCEPT ![p] = r]
    /\ notified' = <<>>
    /\ lastOp' = [op |-> "moveProvider", h |-> p]
    /\ UNCHANGED <<providers, consumers, baseArea, gridMask,
                   provReg, provBefore, consReg, consBefore, provGone>>
    /\ UNCHANGED <<viewVars, gridVars, panVars, nodeVars, otherVars>>

(***************************************************************************)
(* NodeLayoutManager: the registered nodes and the focused path            *)
(***************************************************************************)
Paths == {"f", "g", "h"}

\* null where a path or a node is expected
NullRef == "null"

\* Map.keys(), Map.has(key), Map.get(key) on a sequence of entries
MapKeys(entries) == [i \in 1..Len(entries) |-> entries[i].key]
MapHas(entries, k) == \E i \in 1..Len(entries) : entries[i].key = k
MapGet(entries, k) ==
    IF MapHas(entries, k)
    THEN entries[CHOOSE i \in 1..Len(entries) : entries[i].key = k].node
    ELSE NullRef

\* Map.set(key, value): a present key keeps its place in the iteration order
MapSet(entries, k, v) ==
    IF MapHas(entries, k)
    THEN [i \in 1..Len(entries) |->
            IF entries[i].key = k THEN [key |-> k, node |-> v] ELSE entries[i]]
    ELSE Append(entries, [key |-> k, node |-> v])

\* Map.delete(key)
MapDelete(entries, k) == SelectSeq(entries, LAMBDA e : e.key # k)

\* a sequence without the element k
Without(seq, k) == SelectSeq(seq, LAMBDA e : e # k)

\* mutant of FocusAfterUnregister: the focus is cleared, never moved
FocusAfterUnregister_Clear(entries, focus, k) ==
    IF focus = k THEN NullRef ELSE focus

\* NodeLayoutManager.unregisterNode, the focus it leaves; entries is the map
\* after the delete
FocusAfterUnregister(entries, focus, k) ==
    IF focus = k
    THEN IF Len(entries) > 0 THEN entries[Len(entries)].key ELSE NullRef
    ELSE focus

\* NodeLayoutManager.registerNode as a state change
RegisterNode(filePath, node) ==
    /\ layoutNodes' = MapSet(layoutNodes, filePath, node)
    /\ focusedNodePath' = filePath
    /\ regRecency' = Append(Without(regRecency, filePath), filePath)
    /\ insertOrder' = IF filePath \in Range(insertOrder) THEN insertOrder
                      ELSE Append(insertOrder, filePath)

\* NodeLayoutManager.unregisterNode as a state change
UnregisterNode(filePath) ==
    /\ layoutNodes' = MapDelete(layoutNodes, filePath)
    /\ focusedNodePath' =
          FocusAfterUnregister(MapDelete(layoutNodes, filePath), focusedNodePath, filePath)
    /\ regRecency' = Without(regRecency, filePath)
    /\ insertOrder' = Without(insertOrder, filePath)

\* NodeLayoutManager.setFocusedNode as a state change
SetFocusedNode(filePath) ==
    /\ focusedNodePath' = IF MapHas(layoutNodes, filePath) THEN filePath
                          ELSE focusedNodePath
    /\ UNCHANGED <<layoutNodes, regRecency, insertOrder>>

\* NodeLayoutManager.getFocusedNode
GetFocusedNode(entries, focus) ==
    IF focus # NullRef THEN MapGet(entries, focus) ELSE NullRef

\* NodeLayoutManager.sizingConfig and nodeSpacing
MinWidth == 300
MaxWidth == 800
MinHeight == 200
MaxHeight == 900
BaseWidth == 450
BaseHeight == 400
HeightPerLine == 18
\* widthPerChar 8.5, in tenths
WidthPerCharTenths == 85
LongLineThreshold == 80
NodeSpacing == 40

\* sizes are computed in units of 1 / SizeDen pixel
SizeDen == 10000

\* 1000 * log10(m / 10) for m = 10..99, rounded
MantissaMilli ==
    <<
      0, 41, 79, 114, 146, 176, 204, 230, 255, 279,
      301, 322, 342, 362, 380, 398, 415, 431, 447, 462,
      477, 491, 505, 519, 531, 544, 556, 568, 580, 591,
      602, 613, 623, 633, 643, 653, 663, 672, 681, 690,
      699, 708, 716, 724, 732, 740, 748, 756, 763, 771,
      778, 785, 792, 799, 806, 813, 820, 826, 833, 839,
      845, 851, 857, 863, 869, 875, 881, 886, 892, 898,
      903, 908, 914, 919, 924, 929, 934, 940, 944, 949,
      954, 959, 964, 968, 973, 978, 982, 987, 991, 996 >>

\* Math.log10(n) * 1000 for an integer n >= 1, from the two leading digits
RECURSIVE Log10Milli(_)
Log10Milli(n) ==
    IF n < 10 THEN MantissaMilli[n * 10 - 9]
    ELSE IF n < 100 THEN 1000 + MantissaMilli[n - 9]
    ELSE 1000 + Log10Milli(n \div 10)

\* mutant of ClampTo: the upper bound is not applied
ClampTo_NoMax(v, lo, hi) == Max(lo, v)

\* Math.max(lo, Math.min(hi, v))
ClampTo(v, lo, hi) == Max(lo, Min(hi, v))

\* Math.round of v / SizeDen
RoundSize(v) == (2 * v + SizeDen) \div (2 * SizeDen)

\* NodeLayoutManager.calculateSizeForContent for a content of lineCount
\* lines (content.split('\n').length, at least 1) whose longest line has
\* maxLineLength characters
CalculateSizeForContent(lineCount, maxLineLength) ==
    LET heightFactor ==
            IF lineCount <= 20 THEN lineCount * SizeDen
            ELSE IF lineCount <= 100
                 THEN 20 * SizeDen + (lineCount - 20) * 7 * (SizeDen \div 10)
            ELSE IF lineCount <= 500
                 THEN 20 * SizeDen + 80 * 7 * (SizeDen \div 10)
                      + (lineCount - 100) * 4 * (SizeDen \div 10)
            ELSE 20 * SizeDen + 80 * 7 * (SizeDen \div 10)
                 + 400 * 4 * (SizeDen \div 10)
                 + Log10Milli(lineCount - 500 + 1) * 50 * (SizeDen \div 1000)
        calculatedHeight == BaseHeight * SizeDen + heightFactor * HeightPerLine
        widthFactor ==
            IF maxLineLength <= LongLineThreshold THEN maxLineLength * SizeDen
            ELSE LongLineThreshold * SizeDen
                 + Log10Milli(maxLineLength - LongLineThreshold + 1)
                      * 30 * (SizeDen \div 1000)
        calculatedWidth ==
            BaseWidth * SizeDen
            + (Max(0, widthFactor - 40 * SizeDen) * WidthPerCharTenths) \div 10
    IN  [width  |-> RoundSize(ClampTo(calculatedWidth,
                                      MinWidth * SizeDen, MaxWidth * SizeDen)),
         height |-> RoundSize(ClampTo(calculatedHeight,
                                      MinHeight * SizeDen, MaxHeight * SizeDen))]

\* positions and sizes of the placement are in units of 1 / PosDen pixel,
\* so that the halves of integer sizes are exact
PosDen == 2
MaxAttempts == 10

\* a rectangle given in pixels, in placement units
InPixels(x, y, w, h) == Rect(x * PosDen, y * PosDen, w * PosDen, h * PosDen)

\* mutant of Collides: the tracked node is not inflated
Collides_NoSpacing(pos, size, node) ==
    /\ pos.x < node.x + node.width
    /\ pos.x + size.width > node.x
    /\ pos.y < node.y + node.height
    /\ pos.y + size.height > node.y

\* the AABB test of findCollision: the rectangle of the given size at pos
\* against a tracked node inflated by nodeSpacing / 2 on every side
Collides(pos, size, node) ==
    /\ pos.x < node.x + node.width + (NodeSpacing * PosDen) \div 2
    /\ pos.x + size.width > node.x - (NodeSpacing * PosDen) \div 2
    /\ pos.y < node.y + node.height + (NodeSpacing * PosDen) \div 2
    /\ pos.y + size.height > node.y - (NodeSpacing * PosDen) \div 2

\* NodeLayoutManager.findCollision: the index of the first tracked node, in
\* the map's iteration order, that collides, or 0 for null
FindCollision(tracked, pos, size) ==
    IF \E i \in 1..Len(tracked) : Collides(pos, size, tracked[i])
    THEN CHOOSE i \in 1..Len(tracked) :
            /\ Collides(pos, size, tracked[i])
            /\ \A j \in 1..(i - 1) : ~Collides(pos, size, tracked[j])
    ELSE 0

\* mutant of AdjustPositionForCollisions: one shift, no loop
AdjustPositionForCollisions_Once(tracked, pos, size, attempts) ==
    LET c == FindCollision(tracked, pos, size)
    IN  IF c = 0 THEN pos
        ELSE [pos EXCEPT !.x = tracked[c].x + tracked[c].width + NodeSpacing * PosDen]

\* NodeLayoutManager.adjustPositionForCollisions, from the given number of
\* attempts made
RECURSIVE AdjustPositionForCollisions(_, _, _, _)
AdjustPositionForCollisions(tracked, pos, size, attempts) ==
    LET c == FindCollision(tracked, pos, size)
    IN  IF attempts >= MaxAttempts \/ c = 0 THEN pos
        ELSE AdjustPositionForCollisions(
                tracked,
                [pos EXCEPT !.x = tracked[c].x + tracked[c].width + NodeSpacing * PosDen],
                size, attempts + 1)

\* the position right of the focused node, vertically centred on it
RightOf(focused, size) ==
    Point(focused.x + focused.width + NodeSpacing * PosDen,
          (focused.y + focused.height \div 2) - size.height \div 2)

\* mutant of CalculatePositionForNewNode: the top-left corner is put on the
\* viewport centre
CalculatePositionForNewNode_Corner(tracked, focus, size, center) ==
    IF focus # 0
    THEN AdjustPositionForCollisions(tracked, RightOf(tracked[focus], size), size, 0)
    ELSE Point(center.x, center.y)

\* NodeLayoutManager.calculatePositionForNewNode; tracked are the rectangles
\* of the registered nodes in the map's order, focus the index of the
\* focused one or 0 when getFocusedNode() is null
CalculatePositionForNewNode(tracked, focus, size, center) ==
    IF focus # 0
    THEN AdjustPositionForCollisions(tracked, RightOf(tracked[focus], size), size, 0)
    ELSE Point(center.x - size.width \div 2, center.y - size.height \div 2)

\* what a call on the layout manager alone leaves unchanged
LayoutFrame ==
    UNCHANGED <<maskVars, viewVars, gridVars, panVars, nodeVars, canvasVars, messageVars,
                hostVars, extVars>>

registerNode(filePath, node) ==
    /\ RegisterNode(filePath, node)
    /\ lastOp' = [op |-> "registerNode", path |-> filePath]
    /\ LayoutFrame

unregisterNode(filePath) ==
    /\ UnregisterNode(filePath)
    /\ lastOp' = [op |-> "unregisterNode", path |-> filePath]
    /\ LayoutFrame

setFocusedNode(filePath) ==
    /\ SetFocusedNode(filePath)
    /\ lastOp' = [op |-> "setFocusedNode", path |-> filePath]
    /\ LayoutFrame

\* NodeLayoutManager.clear
clear ==
    /\ layoutNodes' = <<>>
    /\ focusedNodePath' = NullRef
    /\ regRecency' = <<>>
    /\ insertOrder' = <<>>
    /\ lastOp' = [op |-> "clear"]
    /\ LayoutFrame

calculateSizeForContent(lineCount, maxLineLength) ==
    /\ lastOp' = [op |-> "calculateSizeForContent",
                  lineCount |-> lineCount, maxLineLength |-> maxLineLength,
                  size |-> CalculateSizeForContent(lineCount, maxLineLength)]
    /\ UNCHANGED layoutVars
    /\ LayoutFrame

calculatePositionForNewNode(tracked, focus, size, center) ==
    /\ lastOp' = [op |-> "calculatePositionForNewNode",
                  tracked |-> tracked, focus |-> focus,
                  size |-> size, center |-> center,
                  pos |-> CalculatePositionForNewNode(tracked, focus, size, center)]
    /\ UNCHANGED layoutVars
    /\ LayoutFrame

\* the layout manager after its constructor
FreshLayout ==
    /\ layoutNodes = <<>>
    /\ focusedNodePath = NullRef
    /\ regRecency = <<>>
    /\ insertOrder = <<>>

\* the components below, before anything used them
\* the MessageClient after its field initialisers
FreshMessageClient ==
    /\ requestIdCounter = 0
    /\ pendingRequests = <<>>
    /\ promises = <<>>

\* the InfiniteEditPanel and its MessageBus after their constructors
FreshHost ==
    /\ isReady = FALSE
    /\ pendingMessages = <<>>
    /\ posted = <<>>
    /\ handling = <<>>
    /\ received = <<>>
    /\ openCalls = 0

\* the content every file has on the host when the webview is loaded
LoadedContent == "a"
\* no timeout handle (null / undefined); the handles are 1, 2, ...
NoTimer == 0
\* the model URIs (the keys of ModelManager.models)
ModelKeys == {"u"}

\* the window's clock and timeouts, the ModelManager after its constructor,
\* and an EditorNode just constructed on a file
FreshExt ==
    /\ now = 0
    /\ timers = {}
    /\ timerCount = 0
    /\ models = [k \in ModelKeys |-> 0]
    /\ managed = <<>>
    /\ modelRefs = <<>>
    /\ saving = <<>>
    /\ fetching = 0
    /\ edContent = LoadedContent
    /\ contentChangeTimeout = NoTimer
    /\ destroyed = FALSE
    /\ typed = <<>>
    /\ toHost = <<>>
    /\ hostDoc = LoadedContent
    /\ toWebview = <<>>
    /\ sentUpdates = <<>>

FreshOther ==
    /\ FreshLayout
    /\ FreshMessageClient
    /\ FreshHost
    /\ FreshExt
    /\ canvasNodes = <<>>
    /\ editors = [n \in {} |-> NullRef]

(***************************************************************************)
(* CanvasManager: zoom level and content root transform                    *)
(***************************************************************************)
ScreenW == 1920
ScreenH == 1080

\* zoomLevel is kept in tenths of a level
ZoomMin == -300
ZoomMax == 100

\* ZOOM_BASE ^ q * ScaleDen for an integer level q, rounded to nearest
RECURSIVE PowBase(_)
PowBase(q) ==
    IF q = 0 THEN ScaleDen
    ELSE IF q > 0 THEN (PowBase(q - 1) * 11 + 5) \div 10
    ELSE (PowBase(q + 1) * 10 + 5) \div 11

\* (ZOOM_BASE ^ (f / 10) - 1) * 10000 for f = 0..9
FracExcess == <<0, 96, 192, 290, 389, 488, 589, 690, 792, 896>>

\* Math.pow(ZOOM_BASE, zoomLevel) * ScaleDen, zoomLevel z in tenths
ScaleOfZoom(z) ==
    LET p == PowBase(z \div 10)
    IN  p + (p * FracExcess[(z % 10) + 1]) \div 10000

\* -e.deltaY * ZOOM_SENSITIVITY (0.004), in tenths of a level
ZoomDelta(deltaY) == -((deltaY * 4) \div 100)

\* mutant of ClampZoom: the lower bound is missing
ClampZoom_UpperOnly(z) == Min(z, ZoomMax)

\* Math.max(-30, Math.min(zoomLevel, 10))
ClampZoom(z) == Max(ZoomMin, Min(z, ZoomMax))

(***************************************************************************)
(* Viewport                                                                *)
(***************************************************************************)
\* Viewport.getBounds(): screen (0,0) and (screenW, screenH) through the
\* inverse of the content root transform.  left/top are floored and
\* right/bottom are ceiled: Grid compares them with integers only, and
\* floor(v) >= k iff v >= k, ceil(v) <= k iff v <= k for an integer k.
ViewportGetBounds(px, py, s) ==
    [left   |-> ((0 - px) * ScaleDen) \div s,
     top    |-> ((0 - py) * ScaleDen) \div s,
     right  |-> CeilDiv((ScreenW - px) * ScaleDen, s),
     bottom |-> CeilDiv((ScreenH - py) * ScaleDen, s)]

\* Viewport.getScale()
ViewportGetScale(s) == s

(***************************************************************************)
(* Grid                                                                    *)
(***************************************************************************)
MajorSize == 1000
GridPadding == MajorSize * 2

\* Rectangle.right / Rectangle.bottom
RectRight(r) == r.x + r.width
RectBottom(r) == r.y + r.height

\* Math.abs(currentScale - lastScale) > 0.01 * currentScale
ScaleChanged(cur, last) == Abs(cur - last) * 100 > cur

\* bounds inside lastDrawnBounds shrunk by marginX / marginY = 10% of its size
IsInside(b, drawn) ==
    LET marginX == drawn.width \div 10
        marginY == drawn.height \div 10
    IN  /\ b.left >= drawn.x + marginX
        /\ b.right <= RectRight(drawn) - marginX
        /\ b.top >= drawn.y + marginY
        /\ b.bottom <= RectBottom(drawn) - marginY

\* mutant of GridSkips: the third test of the earlier draft of Grid.update
GridSkips_ScaleNotEqual(b, cur, drawn, last) ==
    ~ScaleChanged(cur, last) /\ IsInside(b, drawn) /\ cur # last

\* the early return of Grid.update()
GridSkips(b, cur, drawn, last) ==
    ~ScaleChanged(cur, last) /\ IsInside(b, drawn) /\ last # -1

\* mutant of DrawArea: the padding is left out on the right and at the bottom
DrawArea_PadNearOnly(b) ==
    LET left   == FloorTo(b.left - GridPadding, MajorSize)
        top    == FloorTo(b.top - GridPadding, MajorSize)
        right  == CeilTo(b.right, MajorSize)
        bottom == CeilTo(b.bottom, MajorSize)
    IN  Rect(left, top, right - left, bottom - top)

\* the draw rectangle: bounds padded by two major cells, snapped outwards
DrawArea(b) ==
    LET left   == FloorTo(b.left - GridPadding, MajorSize)
        top    == FloorTo(b.top - GridPadding, MajorSize)
        right  == CeilTo(b.right + GridPadding, MajorSize)
        bottom == CeilTo(b.bottom + GridPadding, MajorSize)
    IN  Rect(left, top, right - left, bottom - top)

\* Grid.update() on the cache <<drawn, last>> under the transform (px, py, s):
\* the new cache and the number of redraw() calls
GridUpdateResult(px, py, s, drawn, last) ==
    LET b   == ViewportGetBounds(px, py, s)
        cur == ViewportGetScale(s)
    IN  IF GridSkips(b, cur, drawn, last)
        THEN [bounds |-> drawn, scale |-> last, redraws |-> 0]
        ELSE [bounds |-> DrawArea(b), scale |-> cur, redraws |-> 1]

\* Grid.update() as a state change, under the transform of the next state
GridUpdate ==
    LET r == GridUpdateResult(panX', panY', scaleQ', lastDrawnBounds, lastScale)
    IN  /\ lastDrawnBounds' = r.bounds
        /\ lastScale' = r.scale
        /\ redrawCount' = r.redraws

\* CanvasManager.updateGrid(): grid.update() then maskManager.update()
updateGrid == GridUpdate /\ MaskUpdate

\* the ticker callback
tick ==
    /\ UNCHANGED viewVars
    /\ updateGrid
    /\ lastOp' = [op |-> "tick",
                  afterUpdate |-> lastOp.op \in {"init", "tick", "onWheel"}]
    /\ UNCHANGED <<panVars, nodeVars, otherVars>>

\* bound on |contentContainer.x| and |contentContainer.y|
MaxPan == 1500
\* fine wheel steps stay within this many tenths of a whole zoom level
MaxFineOffset == 2

\* a pointerdown handler without the test of e.target
onPointerDown_AnyTarget(g) ==
    /\ canvasDragging' = TRUE /\ lastPos' = g
    /\ lastOp' = [op |-> "onPointerDown"]
    /\ UNCHANGED <<maskVars, viewVars, gridVars, nodeVars, otherVars>>

\* CanvasManager.onPointerDown: e.target is the stage iff the stage's
\* MaskedHitArea contains the point
onPointerDown(g) ==
    /\ IF HitAreaContains(baseArea, providers, maskBounds, g.x, g.y)
       THEN canvasDragging' = TRUE /\ lastPos' = g
       ELSE UNCHANGED panVars
    /\ lastOp' = [op |-> "onPointerDown"]
    /\ UNCHANGED <<maskVars, viewVars, gridVars, nodeVars, otherVars>>

\* CanvasManager.onPointerUp (pointerup and pointerupoutside)
onPointerUp ==
    /\ canvasDragging' = FALSE
    /\ lastPos' = Null
    /\ lastOp' = [op |-> "onPointerUp"]
    /\ UNCHANGED <<maskVars, viewVars, gridVars, nodeVars, otherVars>>

\* a pointermove handler that drags every node along instead of the content root
onPointerMove_DraggingNodes(g) ==
    /\ IF canvasDragging /\ lastPos # Null
       THEN /\ nodes' = [n \in DOMAIN nodes |->
                           [nodes[n] EXCEPT !.x = @ + (g.x - lastPos.x),
                                            !.y = @ + (g.y - lastPos.y)]]
            /\ lastPos' = g
            /\ UNCHANGED canvasDragging
       ELSE UNCHANGED <<nodes, panVars>>
    /\ lastOp' = [op |-> "onPointerMove"]
    /\ maskBounds' = LiveBounds(panX, panY, scaleQ, nodes')
    /\ UNCHANGED <<providers, consumers, baseArea, notified, gridMask,
                   provReg, provBefore, consReg, consBefore, provGone>>
    /\ UNCHANGED <<viewVars, gridVars, globalMaxZIndex, children, dragProbe, otherVars>>

\* CanvasManager.onPointerMove
onPointerMove(g) ==
    /\ IF canvasDragging /\ lastPos # Null
       THEN /\ panX' = panX + (g.x - lastPos.x)
            /\ panY' = panY + (g.y - lastPos.y)
            /\ lastPos' = g
            /\ UNCHANGED <<zoomLevel, scaleQ, canvasDragging>>
       ELSE UNCHANGED <<viewVars, panVars>>
    /\ Abs(panX') <= MaxPan /\ Abs(panY') <= MaxPan
    /\ lastOp' = [op |-> "onPointerMove"]
    /\ maskBounds' = LiveBounds(panX', panY', scaleQ', nodes)
    /\ UNCHANGED <<providers, consumers, baseArea, notified, gridMask,
                   provReg, provBefore, consReg, consBefore, provGone>>
    /\ UNCHANGED <<gridVars, nodeVars, otherVars>>

\* mutant of ZoomPan: the world point is scaled by the old scale over the new
ZoomPan_Inverse(c, pan, scale, newScale) == c - ((c - pan) * scale) \div newScale

\* e.global - worldPos * newScale, worldPos = (e.global - pan) / scale, for
\* one coordinate c of e.global
ZoomPan(c, pan, scale, newScale) == c - ((c - pan) * newScale) \div scale

\* CanvasManager.onWheel
onWheel(deltaY, g) ==
    LET newZoom  == ClampZoom(zoomLevel + ZoomDelta(deltaY))
        newScale == ScaleOfZoom(newZoom)
    IN  /\ Abs(newZoom - ((newZoom + 5) \div 10) * 10) <= MaxFineOffset
        /\ zoomLevel' = newZoom
        /\ scaleQ' = newScale
        /\ panX' = ZoomPan(g.x, panX, scaleQ, newScale)
        /\ panY' = ZoomPan(g.y, panY, scaleQ, newScale)
        /\ Abs(panX') <= MaxPan /\ Abs(panY') <= MaxPan
        /\ updateGrid
        /\ lastOp' = [op |-> "onWheel", deltaY |-> deltaY, from |-> zoomLevel]
        /\ UNCHANGED <<panVars, nodeVars, otherVars>>

(***************************************************************************)
(* Specification of the grid under pan, zoom and ticks                     *)
(***************************************************************************)
ScreenRect == Rect(0, 0, ScreenW, ScreenH)
ToolbarWidth == 500
ToolbarHeight == 50
ToolbarTop == 20
\* Toolbar.getMaskGlobalBounds() after updateToolbarPosition()
ToolbarScreenBounds ==
    Rect((ScreenW - ToolbarWidth) \div 2, ToolbarTop, ToolbarWidth, ToolbarHeight)

DownPoints == {Point(240, 180), Point(960, 900), Point(960, 40)}
MovePoints == {Point(240, 180), Point(960, 180), Point(960, 900)}
WheelDeltas == {-2500, -25, 25, 2500}

\* the cursor is over the world origin, when that is on the screen
WheelPoints ==
    IF panX >= 0 /\ panX <= ScreenW /\ panY >= 0 /\ panY <= ScreenH
    THEN {Point(panX, panY)} ELSE {}

\* Grid constructor, then the grid.update() of the CanvasManager constructor
FreshGrid == [bounds |-> Rect(0, 0, 0, 0), scale |-> -1]

InitRegistryOfCanvas(nodeSeq) ==
    /\ providers = <<"toolbar">> \o nodeSeq
    /\ consumers = <<"grid">>
    /\ provReg = Range(providers)
    /\ provBefore = {<<providers[i], providers[j]>> :
                        i \in 1..Len(providers), j \in 1..Len(providers)}
                     \ {pq \in ProviderHandles \X ProviderHandles :
                            IndexOf(providers, pq[1]) >= IndexOf(providers, pq[2])}
    /\ consReg = {"grid"}
    /\ consBefore = {}
    /\ provGone = {}
    /\ baseArea = ScreenRect
    /\ notified = <<>>

InitCanvasView ==
    /\ panX = 0 /\ panY = 0
    /\ zoomLevel = 0
    /\ scaleQ = ScaleOfZoom(0)
    /\ canvasDragging = FALSE
    /\ lastPos = Null
    /\ LET r == GridUpdateResult(0, 0, ScaleOfZoom(0), FreshGrid.bounds, FreshGrid.scale)
       IN  /\ lastDrawnBounds = r.bounds
           /\ lastScale = r.scale
           /\ redrawCount = r.redraws

NoNodes ==
    /\ nodes = [n \in {} |-> Null]
    /\ globalMaxZIndex = 10
    /\ children = <<"grid", "testCurve">>
    /\ dragProbe = [n \in {} |-> Null]

InitGrid ==
    /\ InitRegistryOfCanvas(<<>>)
    /\ maskBounds = [p \in ProviderHandles |-> ToolbarScreenBounds]
    /\ InitCanvasView
    /\ NoNodes
    /\ FreshOther
    /\ gridMask = MaskAfterUpdate(consumers, providers, maskBounds, panX, panY, scaleQ,
                                  UpdateMask(0, 0, ScaleDen, <<>>))
    /\ lastOp = [op |-> "init"]

NextGrid ==
    \/ tick
    \/ \E g \in DownPoints : onPointerDown(g)
    \/ \E g \in MovePoints : onPointerMove(g)
    \/ onPointerUp
    \/ \E d \in WheelDeltas : \E g \in WheelPoints : onWheel(d, g)

SpecGrid == InitGrid /\ [][NextGrid]_vars

(***************************************************************************)
(* EditorNode                                                              *)
(***************************************************************************)
BorderThickness == 5
DefaultWidth == 400
DefaultHeight == 600
MinW == 200
MinH == 100
ThresholdOutsideScreen == 15
InitialZIndex == 10
DragAlpha == 80
FullAlpha == 100

\* bound on EditorNode.globalMaxZIndex: bringToFront calls stop there
MaxZIndex == 14

\* Container.toLocal of the content root: the inverse world transform
ParentToLocal(g) ==
    Point(((g.x - panX) * ScaleDen) \div scaleQ,
          ((g.y - panY) * ScaleDen) \div scaleQ)

\* Container.toGlobal of the content root
ParentToGlobal(w) ==
    Point(panX + (w.x * scaleQ) \div ScaleDen,
          panY + (w.y * scaleQ) \div ScaleDen)

\* EditorNode.toLocal: the node is an unscaled child of the content root
NodeToLocal(nd, g) ==
    Point(ParentToLocal(g).x - nd.x, ParentToLocal(g).y - nd.y)

\* mutant of GetResizeDirection: the band inside the border is as wide as
\* the band outside
GetResizeDirection_WideInside(nd, x, y) ==
    LET out  == ThresholdOutsideScreen * ScaleDen
        w    == nd.width_
        h    == nd.height_
        far  == \/ x * scaleQ < -out \/ (x - w) * scaleQ > out
                \/ y * scaleQ < -out \/ (y - h) * scaleQ > out
        vdir == IF y * scaleQ >= -out /\ y * scaleQ <= out THEN "n"
                ELSE IF (y - h) * scaleQ >= -out /\ (y - h) * scaleQ <= out THEN "s"
                ELSE ""
        hdir == IF x * scaleQ >= -out /\ x * scaleQ <= out THEN "w"
                ELSE IF (x - w) * scaleQ >= -out /\ (x - w) * scaleQ <= out THEN "e"
                ELSE ""
    IN  IF far THEN Null
        ELSE IF vdir # "" \/ hdir # "" THEN [v |-> vdir, h |-> hdir]
        ELSE Null

\* EditorNode.getResizeDirection(x, y); thresholdOutside is
\* 15 / worldTransform.a, compared here after multiplying by the scale
GetResizeDirection(nd, x, y) ==
    LET out  == ThresholdOutsideScreen * ScaleDen
        in   == BorderThickness
        w    == nd.width_
        h    == nd.height_
        far  == \/ x * scaleQ < -out \/ (x - w) * scaleQ > out
                \/ y * scaleQ < -out \/ (y - h) * scaleQ > out
        vdir == IF y * scaleQ >= -out /\ y <= in THEN "n"
                ELSE IF y >= h - in /\ (y - h) * scaleQ <= out THEN "s"
                ELSE ""
        hdir == IF x * scaleQ >= -out /\ x <= in THEN "w"
                ELSE IF x >= w - in /\ (x - w) * scaleQ <= out THEN "e"
                ELSE ""
    IN  IF far THEN Null
        ELSE IF vdir # "" \/ hdir # "" THEN [v |-> vdir, h |-> hdir]
        ELSE Null

\* mutant of NextZIndex: the counter is not incremented
NextZIndex_NoIncrement(g) == g

\* EditorNode.globalMaxZIndex++
NextZIndex(g) == g + 1

\* Container.addChild of a node that is a child already: it moves to the end
MoveToEnd(list, n) == Append(SelectSeq(list, LAMBDA c : c # n), n)

\* EditorNode.bringToFront on node n, given the node table nds
BringToFront(nds, n) ==
    /\ globalMaxZIndex < MaxZIndex
    /\ globalMaxZIndex' = NextZIndex(globalMaxZIndex)
    /\ nodes' = [nds EXCEPT ![n].zIndex = NextZIndex(globalMaxZIndex)]
    /\ children' = MoveToEnd(children, n)

\* EditorNode.onDragStart, the fields it sets before bringToFront
OnDragStart(nd, g) ==
    [nd EXCEPT !.isDragging = TRUE,
               !.dragOffset = NodeToLocal(nd, g),
               !.alpha = DragAlpha]

\* mutant of OnDragEnd: the opacity is not restored
OnDragEnd_KeepAlpha(nd) ==
    IF ~nd.isDragging THEN nd
    ELSE [nd EXCEPT !.isDragging = FALSE]

\* EditorNode.onDragEnd
OnDragEnd(nd) ==
    IF ~nd.isDragging THEN nd
    ELSE [nd EXCEPT !.isDragging = FALSE, !.alpha = FullAlpha]

\* EditorNode.onDragMove (this.parent is set for every node on the canvas)
OnDragMove(nd, g) ==
    IF nd.isDragging
    THEN [nd EXCEPT !.x = ParentToLocal(g).x - nd.dragOffset.x,
                    !.y = ParentToLocal(g).y - nd.dragOffset.y]
    ELSE nd

\* EditorNode.onWrapperPointerDown, the fields it sets before bringToFront
OnResizeStart(nd, dir, g) ==
    [nd EXCEPT !.isResizing = TRUE,
               !.resizeDirection = dir,
               !.startMousePosition = g,
               !.startResizeBounds = Rect(nd.x, nd.y, nd.width_, nd.height_)]

\* the 'e' / 's' branch: [pos, size] from the start edge, start size and delta
ResizeFar(pos, size, d, min) == [pos |-> pos, size |-> Max(min, size + d)]

\* mutant of ResizeNear: the clamped branch keeps following the pointer
ResizeNear_NoAnchor(pos, size, d, min) ==
    IF size - d >= min
    THEN [pos |-> pos + d, size |-> size - d]
    ELSE [pos |-> pos + d, size |-> min]

\* the 'w' / 'n' branch
ResizeNear(pos, size, d, min) ==
    IF size - d >= min
    THEN [pos |-> pos + d, size |-> size - d]
    ELSE [pos |-> pos + (size - min), size |-> min]

\* (e.clientX - startMousePosition.x) / parent.scale.x
PointerDelta(cur, start) == ((cur - start) * ScaleDen) \div scaleQ

\* EditorNode.onGlobalPointerMove, with resize(newW, newH)
OnGlobalPointerMove(nd, g) ==
    IF ~nd.isResizing \/ nd.startResizeBounds = Null
       \/ nd.startMousePosition = Null \/ nd.resizeDirection = Null
    THEN nd
    ELSE
      LET sb  == nd.startResizeBounds
          dir == nd.resizeDirection
          dx  == PointerDelta(g.x, nd.startMousePosition.x)
          dy  == PointerDelta(g.y, nd.startMousePosition.y)
          e   == IF dir.h = "e" THEN ResizeFar(sb.x, sb.width, dx, MinW)
                 ELSE [pos |-> sb.x, size |-> sb.width]
          hz  == IF dir.h = "w" THEN ResizeNear(sb.x, sb.width, dx, MinW) ELSE e
          so  == IF dir.v = "s" THEN ResizeFar(sb.y, sb.height, dy, MinH)
                 ELSE [pos |-> sb.y, size |-> sb.height]
          vt  == IF dir.v = "n" THEN ResizeNear(sb.y, sb.height, dy, MinH) ELSE so
      IN  [nd EXCEPT !.x = hz.pos, !.y = vt.pos,
                     !.width_ = hz.size, !.height_ = vt.size]

\* EditorNode.onGlobalPointerUp
OnGlobalPointerUp(nd) ==
    IF nd.isResizing
    THEN [nd EXCEPT !.isResizing = FALSE,
                    !.resizeDirection = Null,
                    !.startResizeBounds = Null,
                    !.startMousePosition = Null]
    ELSE nd

\* EditorNode.getMaskGlobalBounds: toGlobal of (0, 0) and of (width, height);
\* no editor popup widget is open
NodeGlobalBounds(nd) == GlobalBoundsUnder(panX, panY, scaleQ, nd)

MaskBoundsOf(nds) ==
    [p \in ProviderHandles |->
        IF p \in DOMAIN nds THEN NodeGlobalBounds(nds[p]) ELSE ToolbarScreenBounds]

\* what every node event leaves alone
NodeFrame ==
    /\ UNCHANGED otherVars
    /\ maskBounds' = MaskBoundsOf(nodes')
    /\ UNCHANGED <<providers, consumers, baseArea, notified, gridMask,
                   provReg, provBefore, consReg, consBefore, provGone>>
    /\ UNCHANGED <<viewVars, gridVars, panVars>>

\* pointerdown on the title bar of node n: onDragStart, which stops the
\* propagation when it starts a drag; otherwise the event bubbles to the
\* wrapper's onWrapperPointerDown, which ignores a non-primary button
titlePointerDown(n, button, g) ==
    /\ IF button # 0
       THEN UNCHANGED nodeVars
       ELSE /\ BringToFront([nodes EXCEPT ![n] = OnDragStart(nodes[n], g)], n)
            /\ dragProbe' = [dragProbe EXCEPT
                                ![n] = [pointer |-> g, x |-> nodes[n].x, y |-> nodes[n].y]]
    /\ lastOp' = [op |-> "titlePointerDown", n |-> n, button |-> button]
    /\ NodeFrame

\* pointerdown on the wrapper of node n outside the title bar:
\* onWrapperPointerDown
wrapperPointerDown(n, button, g) ==
    LET local == NodeToLocal(nodes[n], g)
        dir   == GetResizeDirection(nodes[n], local.x, local.y)
    IN  /\ IF nodes[n].isDragging \/ button # 0 \/ dir = Null
           THEN UNCHANGED nodeVars
           ELSE /\ BringToFront([nodes EXCEPT ![n] = OnResizeStart(nodes[n], dir, g)], n)
                /\ UNCHANGED dragProbe
        /\ lastOp' = [op |-> "wrapperPointerDown", n |-> n, button |-> button, dir |-> dir]
        /\ NodeFrame

\* a pointermove delivered to the title bar of node t (as target or by
\* pointer capture), or to no title bar when t = "none": onDragMove of t,
\* then the window listener onGlobalPointerMove of every node
pointerMove(t, g) ==
    /\ nodes' = [n \in DOMAIN nodes |->
                    OnGlobalPointerMove(
                        IF n = t THEN OnDragMove(nodes[n], g) ELSE nodes[n], g)]
    /\ UNCHANGED <<globalMaxZIndex, children, dragProbe>>
    /\ lastOp' = [op |-> "pointerMove", n |-> t, g |-> g]
    /\ NodeFrame

\* a pointerup delivered to the title bar of node t, or to none: onDragEnd
\* of t, then the window listener onGlobalPointerUp of every node
pointerUp(t) ==
    /\ nodes' = [n \in DOMAIN nodes |->
                    OnGlobalPointerUp(
                        IF n = t THEN OnDragEnd(nodes[n]) ELSE nodes[n])]
    /\ UNCHANGED <<globalMaxZIndex, children, dragProbe>>
    /\ lastOp' = [op |-> "pointerUp", n |-> t,
                  resized |-> {n \in DOMAIN nodes : nodes[n].isResizing}]
    /\ NodeFrame

\* monaco onDidFocusEditorText: bringToFront
textFocus(n) ==
    /\ BringToFront(nodes, n)
    /\ UNCHANGED dragProbe
    /\ lastOp' = [op |-> "textFocus", n |-> n]
    /\ NodeFrame

\* the fields of an EditorNode that the CanvasManager reads, after its
\* constructor: the model reference is held
NewEditor(file, content) ==
    [filePath |-> file, content |-> content, markers |-> <<>>, modelRef |-> "held"]

(***************************************************************************)
(* Specification of two editor nodes under pointer events                  *)
(***************************************************************************)
\* an EditorNode after its constructor, placed at (x, y), with z-index z
NewNode(x, y, z) ==
    [x |-> x, y |-> y, width_ |-> DefaultWidth, height_ |-> DefaultHeight,
     isDragging |-> FALSE, dragOffset |-> Point(0, 0),
     isResizing |-> FALSE, resizeDirection |-> Null,
     startMousePosition |-> Null, startResizeBounds |-> Null,
     zIndex |-> z, alpha |-> FullAlpha]

\* content root transforms: <<scale * ScaleDen, pan x, pan y, zoom level>>;
\* the zoom level is the tenth of a level nearest to log(scale) / log(1.1)
Transforms ==
    {<<ScaleDen, 0, 0, 0>>, <<2 * ScaleDen, -100, 0, 73>>, <<ScaleDen \div 2, 40, 20, -73>>}

\* grab points in node-local coordinates
TitleGrab(nd) == {Point(20, 12)}
\* west edge, south-east corner, the band above the north edge, the interior
BorderGrabs(nd) ==
    {Point(4, (nd.height_ \div 4) * 2),
     Point(nd.width_ - 4, nd.height_ - 4),
     Point((nd.width_ \div 4) * 2, -4),
     Point((nd.width_ \div 4) * 2, (nd.height_ \div 4) * 2)}

\* the screen point over the local point l of node nd
ClientOf(nd, l) == ParentToGlobal(Point(nd.x + l.x, nd.y + l.y))

MoveTargets == {Point(240, 160), Point(560, 320), Point(880, 640)}
Buttons == {0, 2}

\* the nodes the pointer touches; the other node only takes the text focus
Touched == {"a"}

InitNode ==
    /\ InitRegistryOfCanvas(<<"a", "b">>)
    /\ \E t \in Transforms :
          scaleQ = t[1] /\ panX = t[2] /\ panY = t[3] /\ zoomLevel = t[4]
    /\ canvasDragging = FALSE
    /\ lastPos = Null
    /\ lastDrawnBounds = DrawArea(ViewportGetBounds(panX, panY, scaleQ))
    /\ lastScale = scaleQ
    /\ redrawCount = 0
    /\ nodes = [n \in NodeIds |->
                  IF n = "a" THEN NewNode(200, 100, InitialZIndex + 1)
                  ELSE NewNode(800, 100, InitialZIndex + 2)]
    /\ globalMaxZIndex = InitialZIndex + 2
    /\ children = <<"grid", "testCurve", "a", "b">>
    /\ dragProbe = [n \in NodeIds |-> Null]
    /\ layoutNodes = <<[key |-> "f", node |-> "a"], [key |-> "g", node |-> "b"]>>
    /\ focusedNodePath = "g"
    /\ regRecency = <<"f", "g">>
    /\ insertOrder = <<"f", "g">>
    /\ FreshMessageClient
    /\ FreshHost
    /\ FreshExt
    /\ canvasNodes = <<"a", "b">>
    /\ editors = [n \in NodeIds |->
                    NewEditor(IF n = "a" THEN "f" ELSE "g", [lineCount |-> 1, maxLineLength |-> 10])]
    /\ maskBounds = MaskBoundsOf(nodes)
    /\ gridMask = UpdateMask(panX, panY, scaleQ, ReportsOf(providers, maskBounds))
    /\ lastOp = [op |-> "init"]

NextNode ==
    \/ \E n \in Touched, b \in Buttons : \E l \in TitleGrab(nodes[n]) :
          titlePointerDown(n, b, ClientOf(nodes[n], l))
    \/ \E n \in Touched, b \in Buttons : \E l \in BorderGrabs(nodes[n]) :
          wrapperPointerDown(n, b, ClientOf(nodes[n], l))
    \/ \E t \in Touched \cup {"none"}, g \in MoveTargets : pointerMove(t, g)
    \/ \E t \in Touched \cup {"none"} : pointerUp(t)
    \/ \E n \in NodeIds : textFocus(n)

SpecNode == InitNode /\ [][NextNode]_vars

(***************************************************************************)
(* Grid claims                                                             *)
(***************************************************************************)
GridOps == {"tick", "onWheel"}

C6_SteadyViewportRedrawsOnce ==
    (lastOp.op = "tick" /\ lastOp.afterUpdate) => redrawCount = 0

(***************************************************************************)
(* Specification of the mask registry and the hit area on their own        *)
(***************************************************************************)
ProbeCoords == (-1)..MaxProbe

\* a fresh MaskManager, and a MaskedHitArea over BaseChoices
InitMask ==
    /\ providers = <<>>
    /\ consumers = <<>>
    /\ provReg = {} /\ provBefore = {} /\ provGone = {}
    /\ consReg = {} /\ consBefore = {}
    /\ notified = <<>>
    /\ baseArea = Rect(0, 0, 5, 4)
    /\ maskBounds = [p \in ProviderHandles |->
                        IF p = "toolbar" THEN ToolbarBounds ELSE Rect(0, 1, 3, 3)]
    /\ InitCanvasView
    /\ NoNodes
    /\ FreshOther
    /\ gridMask = MaskAfterUpdate(consumers, providers, maskBounds, panX, panY, scaleQ,
                                  UpdateMask(0, 0, ScaleDen, <<>>))
    /\ lastOp = [op |-> "init"]

NextMask ==
    \/ \E p \in ProviderHandles : registerProvider(p)
    \/ \E p \in ProviderHandles : unregisterProvider(p)
    \/ \E c \in ConsumerHandles : registerConsumer(c)
    \/ \E c \in ConsumerHandles : unregisterConsumer(c)
    \/ update
    \/ \E x \in ProbeCoords, y \in ProbeCoords : contains(x, y)
    \/ \E r \in BaseChoices : updateBaseArea(r)
    \/ \E p \in NodeIds, r \in BoundsChoices : moveProvider(p, r)

SpecMask == InitMask /\ [][NextMask]_vars

(***************************************************************************)
(* Mask claims                                                             *)
(***************************************************************************)
\* C1: MaskManager.update() calls onMaskUpdate exactly once on every
\* registered consumer, in consumer registration order, and each call
\* receives exactly the providers with a live registration, each once, in
\* provider registration order.
C1_UpdateDeliversRegistry ==
    lastOp.op = "update" =>
        /\ Len(notified) = Cardinality(consReg)
        /\ \A c \in consReg :
              Cardinality({i \in 1..Len(notified) : notified[i].consumer = c}) = 1
        /\ \A i, j \in 1..Len(notified) :
              i < j => <<notified[i].consumer, notified[j].consumer>> \in consBefore
        /\ \A k \in 1..Len(notified) :
              LET got == notified[k].providers
              IN  /\ Len(got) = Cardinality(provReg)
                  /\ \A p \in provReg :
                        Cardinality({i \in 1..Len(got) : got[i] = p}) = 1
                  /\ \A i, j \in 1..Len(got) :
                        i < j => <<got[i], got[j]>> \in provBefore

\* an update to two consumers after "a" was unregistered and "b", then the
\* toolbar, were registered
C1_Witness ==
    /\ lastOp.op = "update"
    /\ Len(notified) = 2
    /\ "a" \in provGone
    /\ <<"b", "toolbar">> \in provBefore

\* C2: the provider list and the consumer list never hold a handle twice,
\* and registering a handle that has a live registration leaves its list
\* as it was.
C2_NoDuplicateRegistration ==
    /\ [](/\ \A i, j \in 1..Len(providers) : providers[i] = providers[j] => i = j
          /\ \A i, j \in 1..Len(consumers) : consumers[i] = consumers[j] => i = j)
    /\ [][ /\ (lastOp'.op = "registerProvider" /\ lastOp'.h \in provReg)
                => providers' = providers
           /\ (lastOp'.op = "registerConsumer" /\ lastOp'.h \in consReg)
                => consumers' = consumers
         ]_vars

\* a registerProvider of a handle that was registered already, among others
C2_Witness ==
    /\ lastOp.op = "registerProvider"
    /\ lastOp.registered
    /\ Len(providers) >= 2

\* C3: unregistering a handle with no live registration changes neither
\* registry.
C3_UnregisterAbsentIsNoOp ==
    [][ (/\ lastOp'.op \in {"unregisterProvider", "unregisterConsumer"}
         /\ ~lastOp'.registered)
        => (providers' = providers /\ consumers' = consumers)
      ]_vars

\* an unregisterProvider of a handle that was unregistered before, with
\* other providers and a consumer registered
C3_Witness ==
    /\ lastOp.op = "unregisterProvider"
    /\ ~lastOp.registered
    /\ lastOp.h \in provGone
    /\ Len(providers) >= 1
    /\ Len(consumers) >= 1

PanOps == {"onPointerDown", "onPointerMove", "onPointerUp"}

\* C11: zoomLevel stays in [-30, 10] and the scale is ZOOM_BASE ^ zoomLevel,
\* never above ZOOM_BASE ^ 10; a wheel event whose delta would carry the
\* level past a bound leaves it exactly at the bound; panning changes
\* neither the level nor the scale.
C11_ZoomClamped ==
    /\ [](/\ ZoomMin <= zoomLevel /\ zoomLevel <= ZoomMax
          /\ scaleQ = ScaleOfZoom(zoomLevel)
          /\ scaleQ <= ScaleOfZoom(ZoomMax)
          /\ lastOp.op = "onWheel" =>
                LET raw == lastOp.from + ZoomDelta(lastOp.deltaY)
                IN  /\ raw > ZoomMax => zoomLevel = ZoomMax
                    /\ raw < ZoomMin => zoomLevel = ZoomMin
                    /\ (ZoomMin <= raw /\ raw <= ZoomMax) => zoomLevel = raw)
    /\ [][lastOp'.op \in PanOps => UNCHANGED <<zoomLevel, scaleQ>>]_vars

\* a wheel event at the lower bound that asks for less
C11_Witness ==
    /\ lastOp.op = "onWheel"
    /\ lastOp.from + ZoomDelta(lastOp.deltaY) < ZoomMin
    /\ zoomLevel = ZoomMin
    /\ scaleQ = ScaleOfZoom(ZoomMin)

(***************************************************************************)
(* EditorNode claims, under SpecNode                                       *)
(***************************************************************************)
\* C7: isDragging and isResizing are never both true on one node.
C7_DragAndResizeExclusive ==
    \A n \in DOMAIN nodes : ~(nodes[n].isDragging /\ nodes[n].isResizing)

\* C8: after every pointer move of a resize gesture the resized dimension
\* is at least its minimum (200 wide, 100 high), is exactly the minimum when
\* the pointer delta proposes less, and the edge opposite the dragged one
\* stays where it was at the start of the gesture.
C8_ResizeClampsAndAnchors ==
    lastOp.op = "pointerMove" =>
      \A n \in DOMAIN nodes :
        nodes[n].isResizing =>
          LET nd  == nodes[n]
              sb  == nd.startResizeBounds
              dir == nd.resizeDirection
              dx  == PointerDelta(lastOp.g.x, nd.startMousePosition.x)
              dy  == PointerDelta(lastOp.g.y, nd.startMousePosition.y)
          IN  /\ dir.h = "e" =>
                    /\ nd.width_ >= MinW
                    /\ (sb.width + dx < MinW => nd.width_ = MinW)
                    /\ nd.x = sb.x
              /\ dir.h = "w" =>
                    /\ nd.width_ >= MinW
                    /\ (sb.width - dx < MinW => nd.width_ = MinW)
                    /\ nd.x + nd.width_ = sb.x + sb.width
              /\ dir.v = "s" =>
                    /\ nd.height_ >= MinH
                    /\ (sb.height + dy < MinH => nd.height_ = MinH)
                    /\ nd.y = sb.y
              /\ dir.v = "n" =>
                    /\ nd.height_ >= MinH
                    /\ (sb.height - dy < MinH => nd.height_ = MinH)
                    /\ nd.y + nd.height_ = sb.y + sb.height

\* a west resize whose pointer delta proposes less than the minimum width
C8_Witness ==
    /\ lastOp.op = "pointerMove"
    /\ \E n \in DOMAIN nodes :
          /\ nodes[n].isResizing
          /\ nodes[n].resizeDirection.h = "w"
          /\ nodes[n].startResizeBounds.width
                - PointerDelta(lastOp.g.x, nodes[n].startMousePosition.x) < MinW
          /\ nodes[n].width_ = MinW
          /\ nodes[n].x > nodes[n].startResizeBounds.x

\* C9: while a node is dragged, after each pointer move its position is the
\* pointer's world position minus the grab offset, which is its position at
\* the start of the drag plus the pointer's movement divided by the scale.
C9_DragFollowsPointer ==
    (/\ lastOp.op = "pointerMove"
     /\ lastOp.n \in DOMAIN nodes
     /\ nodes[lastOp.n].isDragging) =>
        LET nd == nodes[lastOp.n]
            pr == dragProbe[lastOp.n]
            w  == ParentToLocal(lastOp.g)
        IN  /\ nd.x = w.x - nd.dragOffset.x
            /\ nd.y = w.y - nd.dragOffset.y
            /\ nd.x = pr.x + PointerDelta(lastOp.g.x, pr.pointer.x)
            /\ nd.y = pr.y + PointerDelta(lastOp.g.y, pr.pointer.y)

\* the event of the step brought node n to the front
Fronted(n) ==
    /\ lastOp'.op \in {"titlePointerDown", "wrapperPointerDown", "textFocus"}
    /\ lastOp'.n = n
    /\ lastOp'.op = "titlePointerDown" => lastOp'.button = 0
    /\ lastOp'.op = "wrapperPointerDown" =>
          lastOp'.button = 0 /\ lastOp'.dir # Null /\ ~nodes[n].isDragging

\* C10: bringToFront gives the node a z-index above every other node's and
\* above every value handed out before, and makes it the last child; the
\* counter never decreases and no two nodes share a z-index.
C10_BringToFrontIsStrictlyOnTop ==
    /\ [](\A n, m \in DOMAIN nodes :
            /\ nodes[n].zIndex <= globalMaxZIndex
            /\ n # m => nodes[n].zIndex # nodes[m].zIndex)
    /\ [][globalMaxZIndex' >= globalMaxZIndex]_vars
    /\ [][\A n \in DOMAIN nodes :
            Fronted(n) =>
              /\ nodes'[n].zIndex > globalMaxZIndex
              /\ globalMaxZIndex' > globalMaxZIndex
              /\ \A m \in DOMAIN nodes \ {n} : nodes'[n].zIndex > nodes'[m].zIndex
              /\ children'[Len(children')] = n
              /\ Len(children') = Len(children)]_vars

\* node a is brought to the front after node b was
C10_Witness ==
    /\ lastOp.op = "textFocus"
    /\ lastOp.n = "a"
    /\ nodes["b"].zIndex > InitialZIndex + 2
    /\ nodes["a"].zIndex > nodes["b"].zIndex
    /\ children[Len(children)] = "a"

(***************************************************************************)
(* CanvasManager: opening and closing editors                              *)
(***************************************************************************)
\* a content is kept by its line count and the length of its longest line
Contents == {[lineCount |-> 1, maxLineLength |-> 10],
             [lineCount |-> 10, maxLineLength |-> 60]}
DiagnosticLists == {<<>>, <<"error">>}

\* mutant of FindEditor: no node is ever found
FindEditor_None(list, eds, file) == NullRef

\* this.nodes.find(n => n instanceof EditorNode && n.getFilePath() === file)
FindEditor(list, eds, file) ==
    IF \E i \in 1..Len(list) : eds[list[i]].filePath = file
    THEN list[CHOOSE i \in 1..Len(list) :
                 /\ eds[list[i]].filePath = file
                 /\ \A j \in 1..(i - 1) : eds[list[j]].filePath # file]
    ELSE NullRef

\* Viewport.getCenter(): the screen centre through the inverse of the content
\* root transform, in units of 1 / PosDen pixel
ViewportGetCenter(px, py, s) ==
    Point(((ScreenW - 2 * px) * ScaleDen) \div s, ((ScreenH - 2 * py) * ScaleDen) \div s)

\* the rectangles of the nodes of the layout manager's map, in its order
TrackedRects(entries, nds) ==
    [i \in 1..Len(entries) |->
        InPixels(nds[entries[i].node].x, nds[entries[i].node].y,
                 nds[entries[i].node].width_, nds[entries[i].node].height_)]

\* the place in the map of what getFocusedNode() returns, 0 for null
FocusIndex(entries, focus) ==
    IF MapHas(entries, focus)
    THEN CHOOSE i \in 1..Len(entries) : entries[i].key = focus
    ELSE 0

\* the node objects nothing refers to: one of them is what new EditorNode makes
Unreferenced ==
    NodeIds \ (Range(canvasNodes) \cup Range(providers)
               \cup {layoutNodes[i].node : i \in 1..Len(layoutNodes)})

\* mutant of DisposeModelRef: the reference is kept
DisposeModelRef_Keep(eds, n) == eds

\* this.modelRef.dispose() of EditorNode.destroy
DisposeModelRef(eds, n) == [eds EXCEPT ![n].modelRef = "released"]

\* CanvasManager.addEditor(file, content, uri, diagnostics).  A new node has
\* the size of the EditorNode fields: its constructor takes no size, and
\* what it is given in the place of initialDiagnostics has no length, so no
\* marker is set.  The contents are such that the position is a whole pixel.
addEditor(file, content, diagnostics) ==
    LET existing == FindEditor(canvasNodes, editors, file)
        size == CalculateSizeForContent(content.lineCount, content.maxLineLength)
        pos == CalculatePositionForNewNode(
                   TrackedRects(layoutNodes, nodes),
                   FocusIndex(layoutNodes, focusedNodePath),
                   [width |-> size.width * PosDen, height |-> size.height * PosDen],
                   ViewportGetCenter(panX, panY, scaleQ))
    IN  /\ lastOp' = [op |-> "addEditor", file |-> file, content |-> content,
                      diagnostics |-> diagnostics, existing |-> existing]
        /\ UNCHANGED <<consumers, baseArea, consReg, consBefore>>
        /\ UNCHANGED <<viewVars, gridVars, panVars, messageVars, hostVars, extVars>>
        /\ IF existing # NullRef
           THEN /\ editors' = [editors EXCEPT ![existing].content = content,
                                              ![existing].markers = diagnostics]
                /\ BringToFront(nodes, existing)
                /\ SetFocusedNode(file)
                /\ notified' = <<>>
                /\ UNCHANGED <<canvasNodes, dragProbe, providers,
                               provReg, provBefore, provGone>>
                /\ maskBounds' = MaskBoundsOf(nodes')
                /\ UNCHANGED gridMask
           ELSE \E n \in Unreferenced :
                /\ globalMaxZIndex < MaxZIndex
                /\ providers' = RegisterIn(providers, n)
                /\ provReg' = RegSet(provReg, n)
                /\ provBefore' = RegOrder(provReg, provBefore, n)
                /\ provGone' = provGone \ {n}
                /\ editors' = [k \in DOMAIN editors \cup {n} |->
                                  IF k = n THEN NewEditor(file, content) ELSE editors[k]]
                /\ globalMaxZIndex' = NextZIndex(globalMaxZIndex)
                /\ nodes' = [k \in DOMAIN nodes \cup {n} |->
                                IF k = n
                                THEN NewNode(pos.x \div PosDen, pos.y \div PosDen,
                                             NextZIndex(globalMaxZIndex))
                                ELSE nodes[k]]
                /\ dragProbe' = [k \in DOMAIN nodes \cup {n} |->
                                    IF k = n THEN Null ELSE dragProbe[k]]
                /\ children' = Append(children, n)
                /\ RegisterNode(file, n)
                /\ canvasNodes' = Append(canvasNodes, n)
                /\ notified' = Deliveries(consumers, providers')
                /\ maskBounds' = MaskBoundsOf(nodes')
                /\ gridMask' = MaskAfterUpdate(consumers, providers', maskBounds',
                                               panX, panY, scaleQ, gridMask)

\* CanvasManager.removeEditor(editor), the listener of the node's 'close'
\* event, with EditorNode.destroy and updateGrid
removeEditor(n) ==
    /\ n \in DOMAIN editors
    /\ lastOp' = [op |-> "removeEditor", n |-> n, file |-> editors[n].filePath,
                  present |-> Includes(canvasNodes, n)]
    /\ UNCHANGED <<viewVars, panVars, globalMaxZIndex, messageVars, hostVars, extVars,
                   consumers, baseArea, consReg, consBefore>>
    /\ IF IndexOf(canvasNodes, n) # 0
       THEN /\ UnregisterNode(editors[n].filePath)
            /\ canvasNodes' = Splice1(canvasNodes, IndexOf(canvasNodes, n))
            /\ children' = SelectSeq(children, LAMBDA c : c # n)
            /\ providers' = UnregisterFrom(providers, n)
            /\ provReg' = UnregSet(provReg, n)
            /\ provBefore' = UnregOrder(provBefore, n)
            /\ provGone' = IF n \in provReg THEN provGone \cup {n} ELSE provGone
            /\ editors' = DisposeModelRef(editors, n)
            /\ nodes' = [k \in DOMAIN nodes \ {n} |-> nodes[k]]
            /\ dragProbe' = [k \in DOMAIN nodes \ {n} |-> dragProbe[k]]
            /\ maskBounds' = MaskBoundsOf(nodes')
            /\ GridUpdate
            /\ notified' = Deliveries(consumers, providers')
            /\ gridMask' = MaskAfterUpdate(consumers, providers', maskBounds',
                                           panX, panY, scaleQ, gridMask)
       ELSE UNCHANGED <<maskVars, gridVars, nodeVars, otherVars>>

InitCanvas == InitGrid

NextCanvas ==
    \/ \E f \in Paths, c \in Contents, d \in DiagnosticLists : addEditor(f, c, d)
    \/ \E n \in NodeIds : removeEditor(n)
    \/ tick

SpecCanvas == InitCanvas /\ [][NextCanvas]_vars

(***************************************************************************)
(* Canvas claims                                                           *)
(***************************************************************************)
\* the node that is last of the content root's children and alone has the
\* greatest z-index
OnTop(n) ==
    /\ children[Len(children)] = n
    /\ \A k \in DOMAIN nodes \ {n} : nodes[k].zIndex < nodes[n].zIndex

\* C12: after any sequence of addEditor and close calls no two nodes of the
\* canvas have the same file path; and an addEditor for a path that has a node
\* leaves the node list and the provider list as they were, gives that node
\* the content and the diagnostics of the call, brings it to the front and
\* makes its path the focused path of the layout manager.
C12_AtMostOneNodePerPath ==
    /\ [](\A i, j \in 1..Len(canvasNodes) :
              editors[canvasNodes[i]].filePath = editors[canvasNodes[j]].filePath
                  => i = j)
    /\ [][(/\ lastOp'.op = "addEditor"
           /\ \E n \in Range(canvasNodes) : editors[n].filePath = lastOp'.file)
          => \E n \in Range(canvasNodes) :
                /\ editors[n].filePath = lastOp'.file
                /\ canvasNodes' = canvasNodes
                /\ providers' = providers
                /\ DOMAIN editors' = DOMAIN editors
                /\ editors'[n].content = lastOp'.content
                /\ editors'[n].markers = lastOp'.diagnostics
                /\ OnTop(n)'
                /\ nodes'[n].zIndex > globalMaxZIndex
                /\ focusedNodePath' = lastOp'.file]_vars

\* an addEditor for the path of the older of two nodes, with another content
\* and a diagnostic, has just put that node over the other one
C12_Witness ==
    /\ lastOp.op = "addEditor"
    /\ lastOp.existing # NullRef
    /\ Len(canvasNodes) = 2
    /\ canvasNodes[1] = lastOp.existing
    /\ lastOp.diagnostics = <<"error">>
    /\ editors[lastOp.existing].content = [lineCount |-> 10, maxLineLength |-> 60]
    /\ focusedNodePath = lastOp.file
    /\ OnTop(lastOp.existing)

\* C13: the registered providers are the toolbar and the nodes of the canvas,
\* each once, and every node of the canvas holds its model reference; when
\* removeEditor returns for a node of the canvas, the node is in neither the
\* provider list, the node list nor the layout manager's map, and its model
\* reference is released.
C13_ProvidersAreToolbarAndCanvasNodes ==
    /\ Range(providers) = {"toolbar"} \cup Range(canvasNodes)
    /\ Len(providers) = 1 + Len(canvasNodes)
    /\ \A n \in Range(canvasNodes) : editors[n].modelRef = "held"
    /\ (lastOp.op = "removeEditor" /\ lastOp.present)
          => /\ ~Includes(providers, lastOp.n)
             /\ ~Includes(canvasNodes, lastOp.n)
             /\ \A i \in 1..Len(layoutNodes) :
                   layoutNodes[i].node # lastOp.n /\ layoutNodes[i].key # lastOp.file
             /\ editors[lastOp.n].modelRef = "released"

\* the first of two nodes was closed and the other one is still there
C13_Witness ==
    /\ lastOp.op = "removeEditor"
    /\ lastOp.present
    /\ Len(canvasNodes) = 1
    /\ providers = <<"toolbar">> \o canvasNodes
    /\ lastOp.n \in provGone
    /\ editors[lastOp.n].modelRef = "released"

(***************************************************************************)
(* Specification of Grid.onMaskUpdate over what the providers report       *)
(***************************************************************************)
\* Grid.onMaskUpdate(providers), given what the getMaskGlobalBounds() of each
\* provider returns, in the order of the list
onMaskUpdate(reports) ==
    /\ gridMask' = UpdateMask(panX, panY, scaleQ, reports)
    /\ lastOp' = [op |-> "onMaskUpdate", reports |-> reports]
    /\ UNCHANGED <<providers, consumers, maskBounds, baseArea, notified,
                   provReg, provBefore, consReg, consBefore, provGone>>
    /\ UNCHANGED <<viewVars, gridVars, panVars, nodeVars, otherVars>>

\* the toolbar's Rectangle; an editor node's array, without and with the
\* rectangle of an open popup widget
ReportChoices ==
    {Rect(760, 20, 400, 52),
     [items |-> <<Rect(200, 100, 400, 600)>>],
     [items |-> <<Rect(200, 100, 400, 600), Rect(240, 160, 200, 80)>>],
     [items |-> <<Rect(800, 100, 400, 600), Rect(1160, 300, 120, 240)>>]}

ReportLists ==
    {<<>>} \cup {<<r>> : r \in ReportChoices}
    \cup (ReportChoices \X ReportChoices)
    \cup {t \in ReportChoices \X ReportChoices \X ReportChoices : t[1] = Rect(760, 20, 400, 52)}

NextHoles == \E reports \in ReportLists : onMaskUpdate(reports)

SpecHoles == InitNode /\ [][NextHoles]_vars

\* every rectangle of a list of reports
ReportedRects(reports) ==
    UNION {IF "x" \in DOMAIN reports[i] THEN {reports[i]} ELSE Range(reports[i].items) :
             i \in 1..Len(reports)}

\* a screen rectangle in the Grid's coordinates
LocalRect(r) ==
    LET tl == GridToLocal(panX, panY, scaleQ, Point(r.x, r.y))
        br == GridToLocal(panX, panY, scaleQ, Point(r.x + r.width, r.y + r.height))
    IN  Rect(tl.x, tl.y, br.x - tl.x, br.y - tl.y)

\* C16: after a mask update the holes of the Grid's mask are the rectangles
\* reported by the providers, every rectangle of every provider, and nothing
\* else (nothing of the holes before the update is left).
C16_HolesAreAllReportedRects ==
    lastOp.op = "onMaskUpdate"
        => Range(gridMask.holes) = {LocalRect(r) : r \in ReportedRects(lastOp.reports)}

(***************************************************************************)
(* Specification of the ticker over nodes under pointer events             *)
(***************************************************************************)
\* the ticker callback of canvas/CanvasManager.ts: while a node of the canvas
\* is dragged or resized it runs grid.update() alone, otherwise updateGrid()
tickUnlessInteracting ==
    /\ UNCHANGED viewVars
    /\ IF \E n \in Range(canvasNodes) : nodes[n].isDragging \/ nodes[n].isResizing
       THEN /\ GridUpdate
            /\ notified' = <<>>
            /\ UNCHANGED <<providers, consumers, maskBounds, baseArea, gridMask,
                           provReg, provBefore, consReg, consBefore, provGone>>
       ELSE updateGrid
    /\ lastOp' = [op |-> "tick",
                  afterUpdate |-> lastOp.op \in {"init", "tick", "onWheel"}]
    /\ UNCHANGED <<panVars, nodeVars, otherVars>>

\* the repository holds both ticker callbacks
NextFrame ==
    \/ NextNode
    \/ tick
    \/ tickUnlessInteracting

SpecFrame == InitNode /\ [][NextFrame]_vars

\* C15: at the end of every tick MaskManager.update() has run after
\* Grid.update(): every consumer was handed the provider list, and what the
\* Grid read from the providers is what they report now, also while a node is
\* dragged or resized.
C15_TickUpdatesGridAndMask ==
    lastOp.op = "tick"
        => /\ notified = Deliveries(consumers, providers)
           /\ gridMask.reports = ReportsOf(providers, maskBounds)

(***************************************************************************)
(* MessageClient: requests to the host and their settlement                *)
(***************************************************************************)
\* bound on the number of request() calls
MaxRequests == 3

\* mutant of NextRequestId: the counter stays
NextRequestId_Same(c) == c

\* this.requestIdCounter++
NextRequestId(c) == c + 1

\* a promise that resolve or reject was called on: only the first call on a
\* pending promise settles it
Settle(promise, state, value) ==
    IF promise.state = "pending"
    THEN [promise EXCEPT !.state = state, !.value = value, !.calls = @ + 1]
    ELSE [promise EXCEPT !.calls = @ + 1]

\* MessageClient.request(command, body): the executor of the new promise
\* stores its resolve and reject under the id
request(command) ==
    LET requestId == ToString(requestIdCounter)
    IN  /\ Len(promises) < MaxRequests
        /\ requestIdCounter' = NextRequestId(requestIdCounter)
        /\ promises' = Append(promises, [id |-> requestId, state |-> "pending",
                                         value |-> NullRef, calls |-> 0])
        /\ pendingRequests' = MapSet(pendingRequests, requestId, Len(promises) + 1)
        /\ lastOp' = [op |-> "request", command |-> command, requestId |-> requestId]
        /\ UNCHANGED <<maskVars, viewVars, gridVars, panVars, nodeVars,
                       layoutVars, canvasVars, hostVars, extVars>>

\* the listener of the window's 'message' event, for a message that is not
\* 'openFile'
onMessage(message) ==
    /\ lastOp' = [op |-> "onMessage", message |-> message]
    /\ UNCHANGED <<maskVars, viewVars, gridVars, panVars, nodeVars,
                   layoutVars, canvasVars, hostVars, extVars, requestIdCounter>>
    /\ IF message.command \in {"response", "error"}
          /\ MapHas(pendingRequests, message.requestId)
       THEN LET req == MapGet(pendingRequests, message.requestId)
            IN  /\ promises' =
                      [promises EXCEPT ![req] =
                          IF message.command = "response"
                          THEN Settle(@, "resolved", message.body)
                          ELSE Settle(@, "rejected", message.message)]
                /\ pendingRequests' = MapDelete(pendingRequests, message.requestId)
       ELSE UNCHANGED <<pendingRequests, promises>>

RequestCommands == {"getHover"}
MessageIds == {"0", "1", "2", "7"}
Messages ==
    [command : {"response", "error", "setTheme"}, requestId : MessageIds,
     body : {"body1", "body2"}, message : {"failed"}]

NextMessages ==
    \/ \E c \in RequestCommands : request(c)
    \/ \E m \in Messages : onMessage(m)

SpecMessages == InitGrid /\ [][NextMessages]_vars

\* the places in promises of the requests with the given id
PromisesOf(id) == {i \in 1..Len(promises) : promises[i].id = id}

\* C17: every request() has an id no earlier request had, the ids being the
\* values of a counter that grows by one; a 'response' or 'error' whose
\* requestId is pending settles the request of that id and no other one, with
\* the body or with the message, and takes it out of the pending map; any
\* other 'response' or 'error' changes nothing; no promise has resolve or
\* reject called more than once; the pending ids are those of the promises
\* not settled.
C17_RequestsSettleOnce ==
    /\ [](/\ \A i \in 1..Len(promises) : promises[i].id = ToString(i - 1)
          /\ \A i, j \in 1..Len(promises) : promises[i].id = promises[j].id => i = j
          /\ \A i \in 1..Len(promises) : promises[i].calls <= 1
          /\ Range(MapKeys(pendingRequests))
                = {promises[i].id : i \in {k \in 1..Len(promises) :
                                                promises[k].state = "pending"}})
    /\ [][lastOp'.op = "onMessage"
          => LET m == lastOp'.message
                 hit == /\ m.command \in {"response", "error"}
                        /\ m.requestId \in Range(MapKeys(pendingRequests))
             IN  IF hit
                 THEN /\ Len(promises') = Len(promises)
                      /\ \A i \in 1..Len(promises) :
                            IF promises[i].id = m.requestId
                            THEN /\ promises[i].state = "pending"
                                 /\ promises'[i].state =
                                       (IF m.command = "response" THEN "resolved"
                                        ELSE "rejected")
                                 /\ promises'[i].value =
                                       (IF m.command = "response" THEN m.body
                                        ELSE m.message)
                            ELSE promises'[i] = promises[i]
                      /\ Range(MapKeys(pendingRequests'))
                            = Range(MapKeys(pendingRequests)) \ {m.requestId}
                 ELSE UNCHANGED <<pendingRequests, promises, requestIdCounter>>]_vars

\* a response for a request that an earlier message settled has just been
\* dropped, with one request resolved, one rejected and one pending
C17_Witness ==
    /\ lastOp.op = "onMessage"
    /\ lastOp.message.command = "response"
    /\ \E i \in PromisesOf(lastOp.message.requestId) : promises[i].state = "rejected"
    /\ \E i \in 1..Len(promises) :
          promises[i].state = "resolved" /\ promises[i].value = "body2"
    /\ \E i \in 1..Len(promises) : promises[i].state = "pending"
    /\ Len(pendingRequests) = 1

(***************************************************************************)
(* Specification of the NodeLayoutManager under its registration calls     *)
(***************************************************************************)
InitLayout == InitGrid

NextLayout ==
    \/ \E f \in Paths, n \in NodeIds : registerNode(f, n)
    \/ \E f \in Paths : unregisterNode(f)
    \/ \E f \in Paths : setFocusedNode(f)
    \/ clear

SpecLayout == InitLayout /\ [][NextLayout]_vars

Last(seq) == IF Len(seq) > 0 THEN seq[Len(seq)] ELSE NullRef

\* the focus is null exactly when nothing is registered, else a registered path
FocusIsRegistered ==
    /\ (focusedNodePath = NullRef) <=> (insertOrder = <<>>)
    /\ focusedNodePath # NullRef => focusedNodePath \in Range(insertOrder)

\* unregistering a non-focused path, or focusing an unregistered one, keeps
\* the focus
FocusKept ==
    /\ (lastOp'.op = "unregisterNode" /\ lastOp'.path # focusedNodePath)
          => focusedNodePath' = focusedNodePath
    /\ (lastOp'.op = "setFocusedNode" /\ lastOp'.path \notin Range(insertOrder))
          => focusedNodePath' = focusedNodePath

\* C14 as stated: the focus is null exactly when no node is registered and
\* otherwise a registered path; unregistering the focused node moves the
\* focus to the remaining path whose registerNode call is the most recent,
\* or to null when none remains; other unregistrations and setFocusedNode
\* with an unregistered path leave the focus unchanged.
C14_FocusToMostRecentlyRegistered ==
    /\ []FocusIsRegistered
    /\ [][FocusKept]_vars
    /\ [][(lastOp'.op = "unregisterNode" /\ lastOp'.path = focusedNodePath)
            => focusedNodePath' = Last(regRecency')]_vars

\* C14, amended: as stated, except that unregistering the focused node moves
\* the focus to the remaining path that became registered last; registering
\* a path that is registered already does not make it more recent.
C14_FocusToLastInserted ==
    /\ []FocusIsRegistered
    /\ [][FocusKept]_vars
    /\ [][(lastOp'.op = "unregisterNode" /\ lastOp'.path = focusedNodePath)
            => focusedNodePath' = Last(insertOrder')]_vars

\* the focused node was unregistered and the focus moved to a path that is
\* not the one registered by the most recent call
C14_Witness ==
    /\ lastOp.op = "unregisterNode"
    /\ lastOp.path \notin Range(insertOrder)
    /\ Len(insertOrder) = 2
    /\ focusedNodePath = Last(insertOrder)
    /\ focusedNodePath # Last(regRecency)

(***************************************************************************)
(* Specification of calculateSizeForContent over contents                  *)
(***************************************************************************)
LineCounts == {1, 2, 10, 20, 21, 50, 100, 101, 300, 500, 501, 800, 5000}
LineLengths == {0, 1, 20, 40, 41, 60, 80, 81, 120, 200, 1000}

NextSize ==
    \E lc \in LineCounts, ml \in LineLengths : calculateSizeForContent(lc, ml)

SpecSize == InitLayout /\ [][NextSize]_vars

\* C18: calculateSizeForContent returns a width within [300, 800] and a
\* height within [200, 900]; 800 lines with a longest line of 40 characters
\* give height 900 and width 450.
C18_SizeWithinBounds ==
    lastOp.op = "calculateSizeForContent" =>
        /\ MinWidth <= lastOp.size.width /\ lastOp.size.width <= MaxWidth
        /\ MinHeight <= lastOp.size.height /\ lastOp.size.height <= MaxHeight
        /\ (lastOp.lineCount = 800 /\ lastOp.maxLineLength = 40) =>
              lastOp.size = [width |-> BaseWidth, height |-> MaxHeight]

\* the size computed for 800 lines with a longest line of 40 characters
C18_Witness ==
    /\ lastOp.op = "calculateSizeForContent"
    /\ lastOp.lineCount = 800 /\ lastOp.maxLineLength = 40
    /\ lastOp.size = [width |-> 450, height |-> 900]

(***************************************************************************)
(* Specification of calculatePositionForNewNode over layouts               *)
(***************************************************************************)
\* rectangles of tracked nodes
TrackedPool ==
    {InPixels(0, 0, 400, 600), InPixels(500, 0, 400, 600),
     InPixels(1000, 0, 400, 600), InPixels(2000, 0, 400, 600),
     InPixels(500, -1000, 400, 600)}

\* the tracked nodes in map order: up to three different rectangles
TrackedLayouts ==
    {<<>>} \cup {<<r>> : r \in TrackedPool}
    \cup {t \in TrackedPool \X TrackedPool : t[1] # t[2]}
    \cup {t \in TrackedPool \X TrackedPool \X TrackedPool :
            /\ t[1] = InPixels(0, 0, 400, 600)
            /\ t[1] # t[2] /\ t[1] # t[3] /\ t[2] # t[3]}

NewSizes == {[width |-> 450 * PosDen, height |-> 418 * PosDen],
             [width |-> 621 * PosDen, height |-> 901 * PosDen]}
ViewportCenters == {Point(960 * PosDen, 540 * PosDen), Point(-75, 1081)}

NextPlace ==
    \E tracked \in TrackedLayouts, size \in NewSizes, center \in ViewportCenters :
        \E focus \in 0..Len(tracked) :
            calculatePositionForNewNode(tracked, focus, size, center)

SpecPlace == InitLayout /\ [][NextPlace]_vars

\* the rectangle of the given size at pos overlaps node inflated by half the
\* node spacing
Overlaps(pos, size, node) ==
    /\ pos.x < node.x + node.width + 20 * PosDen
    /\ node.x - 20 * PosDen < pos.x + size.width
    /\ pos.y < node.y + node.height + 20 * PosDen
    /\ node.y - 20 * PosDen < pos.y + size.height

\* x = A.x + A.width + nodeSpacing, y = A.y + A.height / 2 - newHeight / 2
BesideFocused(op) ==
    LET A == op.tracked[op.focus]
    IN  Point(A.x + A.width + 40 * PosDen,
              (2 * A.y + A.height - op.size.height) \div 2)

\* C19 as stated: with a focused node A the new node is placed beside A when
\* that rectangle collides with no tracked node, and otherwise at
\* x = C.x + C.width + nodeSpacing for a tracked node C it collides with, y
\* unchanged.
C19_ShiftPastCollidingNode ==
    (lastOp.op = "calculatePositionForNewNode" /\ lastOp.focus # 0) =>
        LET p0 == BesideFocused(lastOp)
            hit == {i \in 1..Len(lastOp.tracked) :
                        Overlaps(p0, lastOp.size, lastOp.tracked[i])}
        IN  IF hit = {} THEN lastOp.pos = p0
            ELSE \E i \in hit :
                    lastOp.pos = Point(lastOp.tracked[i].x + lastOp.tracked[i].width
                                          + 40 * PosDen, p0.y)

\* C19, amended: with a focused node A the new node is placed beside A when
\* that rectangle collides with no tracked node; otherwise y is unchanged,
\* x is C.x + C.width + nodeSpacing for a tracked node C right of which the
\* rectangle was shifted, and with at most ten tracked nodes the shifted
\* rectangle collides with no tracked node.
C19_ShiftUntilFree ==
    (lastOp.op = "calculatePositionForNewNode" /\ lastOp.focus # 0) =>
        LET p0 == BesideFocused(lastOp)
            all == 1..Len(lastOp.tracked)
            hit == {i \in all : Overlaps(p0, lastOp.size, lastOp.tracked[i])}
        IN  IF hit = {} THEN lastOp.pos = p0
            ELSE /\ lastOp.pos.y = p0.y
                 /\ lastOp.pos.x > p0.x
                 /\ \E i \in all :
                       lastOp.pos.x = lastOp.tracked[i].x + lastOp.tracked[i].width
                                         + 40 * PosDen
                 /\ \A i \in all : ~Overlaps(lastOp.pos, lastOp.size, lastOp.tracked[i])

\* the rectangle beside A collides with C and, shifted past C, with a third
\* node
C19_Witness ==
    /\ lastOp.op = "calculatePositionForNewNode"
    /\ lastOp.focus # 0
    /\ \E i \in 1..Len(lastOp.tracked) :
          /\ Overlaps(BesideFocused(lastOp), lastOp.size, lastOp.tracked[i])
          /\ lastOp.pos.x > lastOp.tracked[i].x + lastOp.tracked[i].width + 40 * PosDen
    /\ \A i \in 1..Len(lastOp.tracked) :
          ~Overlaps(lastOp.pos, lastOp.size, lastOp.tracked[i])

\* C20: with no focused node the new node is placed at viewportCenter minus
\* half its size, so its centre is the viewport centre, whatever nodes are
\* tracked.
C20_CenteredWithoutFocus ==
    (lastOp.op = "calculatePositionForNewNode" /\ lastOp.focus = 0) =>
        /\ 2 * lastOp.pos.x + lastOp.size.width = 2 * lastOp.center.x
        /\ 2 * lastOp.pos.y + lastOp.size.height = 2 * lastOp.center.y

\* no focus, and the centred rectangle lies over a tracked node
C20_Witness ==
    /\ lastOp.op = "calculatePositionForNewNode"
    /\ lastOp.focus = 0
    /\ \E i \in 1..Len(lastOp.tracked) :
          Overlaps(lastOp.pos, lastOp.size, lastOp.tracked[i])
    /\ 2 * lastOp.pos.x + lastOp.size.width = 2 * lastOp.center.x

RegistrationOps ==
    {"registerProvider", "unregisterProvider", "registerConsumer", "unregisterConsumer"}

\* C22: a registration or an unregistration of a provider or of a consumer
\* makes no onMaskUpdate call; the only operation of the registry that makes
\* one is update().
C22_RegistrationNeverNotifies ==
    /\ lastOp.op \in RegistrationOps => notified = <<>>
    /\ notified # <<>> => lastOp.op = "update"

\* a consumer was registered over a registered consumer and a provider, and
\* nobody was notified
C22_Witness ==
    /\ lastOp.op = "registerConsumer"
    /\ ~lastOp.registered
    /\ Len(consumers) = 2
    /\ Len(providers) >= 1
    /\ notified = <<>>

(***************************************************************************)
(* Specification of MaskManager.update() with consumers whose onMaskUpdate *)
(* calls back into the MaskManager                                         *)
(***************************************************************************)
\* what a consumer's onMaskUpdate may do
Reactions ==
    {[do |-> "nothing"]}
    \cup {[do |-> "unregisterConsumer", h |-> c] : c \in ConsumerHandles}
    \cup {[do |-> d, h |-> "a"] : d \in {"registerProvider", "unregisterProvider"}}

\* the lists and their histories
Registry ==
    [providers |-> providers, consumers |-> consumers,
     provReg |-> provReg, provBefore |-> provBefore, provGone |-> provGone,
     consReg |-> consReg, consBefore |-> consBefore]

\* the registry after the call a reaction makes
React(reg, r) ==
    IF r.do = "unregisterConsumer"
    THEN [reg EXCEPT !.consumers = UnregisterFrom(@, r.h),
                     !.consReg = UnregSet(@, r.h),
                     !.consBefore = UnregOrder(@, r.h)]
    ELSE IF r.do = "registerProvider"
    THEN [reg EXCEPT !.providers = RegisterIn(@, r.h),
                     !.provReg = RegSet(@, r.h),
                     !.provBefore = RegOrder(reg.provReg, @, r.h),
                     !.provGone = @ \ {r.h}]
    ELSE IF r.do = "unregisterProvider"
    THEN [reg EXCEPT !.providers = UnregisterFrom(@, r.h),
                     !.provReg = UnregSet(@, r.h),
                     !.provBefore = UnregOrder(@, r.h),
                     !.provGone = IF r.h \in reg.provReg THEN @ \cup {r.h} ELSE @]
    ELSE reg

\* the for...of loop of update() from the array index i on (1-based): the
\* iterator reads the length and the element of the live array at each step
RECURSIVE UpdateLoop(_, _, _, _)
UpdateLoop(reg, i, reactionOf, calls) ==
    IF i > Len(reg.consumers) THEN [registry |-> reg, notified |-> calls]
    ELSE UpdateLoop(React(reg, reactionOf[reg.consumers[i]]), i + 1, reactionOf,
                    Append(calls, [consumer |-> reg.consumers[i],
                                   providers |-> reg.providers]))

\* MaskManager.update() when the onMaskUpdate of consumer c does reactionOf[c]
updateReentrant(reactionOf) ==
    LET done == UpdateLoop(Registry, 1, reactionOf, <<>>)
    IN  /\ notified' = done.notified
        /\ providers' = done.registry.providers
        /\ consumers' = done.registry.consumers
        /\ provReg' = done.registry.provReg
        /\ provBefore' = done.registry.provBefore
        /\ provGone' = done.registry.provGone
        /\ consReg' = done.registry.consReg
        /\ consBefore' = done.registry.consBefore
        /\ lastOp' = [op |-> "update", reactionOf |-> reactionOf, before |-> consumers]
        /\ UNCHANGED <<maskBounds, baseArea, gridMask>>
        /\ UNCHANGED <<viewVars, gridVars, panVars, nodeVars, otherVars>>

NextReentrant ==
    \/ \E p \in ProviderHandles : registerProvider(p)
    \/ \E p \in ProviderHandles : unregisterProvider(p)
    \/ \E c \in ConsumerHandles : registerConsumer(c)
    \/ \E c \in ConsumerHandles : unregisterConsumer(c)
    \/ \E reactionOf \in [ConsumerHandles -> Reactions] : updateReentrant(reactionOf)

SpecReentrant == InitMask /\ [][NextReentrant]_vars

\* C23: when update() returns, every consumer that was registered when it
\* began and still is has had exactly one onMaskUpdate call in it, whatever
\* the callbacks unregistered or registered meanwhile.
C23_ReentrantUpdateNotifiesOnce ==
    lastOp.op = "update"
        => \A c \in Range(lastOp.before) \cap Range(consumers) :
              Cardinality({i \in 1..Len(notified) : notified[i].consumer = c}) = 1

(***************************************************************************)
(* Specification of the stage with editor nodes on the canvas: pan, zoom   *)
(* and ticks of the CanvasManager with the pointer events of the nodes     *)
(***************************************************************************)
\* the pointer moves between a point over node a and a point of the background
StageMovePoints == {Point(240, 180), Point(960, 900)}
\* where the pointer takes a dragged node
StageDragPoints == {Point(240, 180)}
\* whole zoom levels in and out
StageWheelDeltas == {-2500, 2500}

\* bound on |contentContainer.x| and |contentContainer.y| with nodes on the canvas
MaxStagePan == 720
\* bound on |zoomLevel|, in tenths of a zoom level
MaxStageZoom == 100
AtIdentity == scaleQ = ScaleDen /\ panX = 0 /\ panY = 0

NextStage ==
    \/ \E g \in DownPoints : onPointerDown(g)
    \/ \E g \in StageMovePoints :
          onPointerMove(g) /\ Abs(panX') <= MaxStagePan /\ Abs(panY') <= MaxStagePan
    \/ onPointerUp
    \/ \E d \in StageWheelDeltas : \E g \in WheelPoints :
          onWheel(d, g) /\ Abs(zoomLevel') <= MaxStageZoom
    \/ tick
    \* a drag of node a by its title bar, made while the content root is at
    \* the identity transform
    \/ /\ AtIdentity
       /\ \E n \in Touched : \E l \in TitleGrab(nodes[n]) :
             titlePointerDown(n, 0, ClientOf(nodes[n], l))
    \/ /\ AtIdentity
       /\ \E t \in Touched, g \in StageDragPoints : pointerMove(t, g)
    \/ \E t \in Touched : pointerUp(t)

\* the canvas of InitNode under the identity transform
InitStage == InitNode /\ AtIdentity

SpecStage == InitStage /\ [][NextStage]_vars

\* the screen point g is inside the bounds of a registered mask provider
\* (an editor node or the toolbar), as the provider reports them now
OverProvider(g) ==
    \E p \in Range(providers) :
        RectContains(IF p \in DOMAIN nodes THEN NodeGlobalBounds(nodes[p])
                     ELSE ToolbarScreenBounds, g.x, g.y)

CanvasOps == {"onPointerDown", "onPointerMove", "onPointerUp", "onWheel", "tick"}

C25_PanZoomLeaveNodes ==
    [][/\ lastOp'.op \in CanvasOps
             => /\ nodes' = nodes
                /\ globalMaxZIndex' = globalMaxZIndex
                /\ children' = children
                /\ layoutNodes' = layoutNodes
       /\ lastOp'.op \in {"onPointerDown", "onPointerUp", "tick"}
             => UNCHANGED <<panX, panY, scaleQ, zoomLevel>>
       /\ lastOp'.op = "onPointerMove" => UNCHANGED <<scaleQ, zoomLevel>>
       /\ \A n \in DOMAIN nodes :
             (\/ nodes'[n].x # nodes[n].x \/ nodes'[n].y # nodes[n].y
              \/ nodes'[n].width_ # nodes[n].width_
              \/ nodes'[n].height_ # nodes[n].height_)
                => lastOp'.op = "pointerMove"]_vars

\* a pan and a zoom have moved the content root under a node that was dragged
C25_Witness ==
    /\ lastOp.op \in {"onPointerMove", "onWheel"}
    /\ scaleQ # ScaleDen /\ panX # 0
    /\ nodes["a"].x # 200

(***************************************************************************)
(* Drag and resize lifecycles of an editor node, under SpecNode            *)
(***************************************************************************)
\* the parts of the drag lifecycle that do not depend on how pointer moves
\* outside a drag are described
DragLifecycle ==
    /\ [](\A n \in DOMAIN nodes : nodes[n].alpha < FullAlpha => nodes[n].isDragging)
    /\ [][/\ lastOp'.op = "titlePointerDown"
             => LET n == lastOp'.n
                IN  IF lastOp'.button = 0
                    THEN /\ nodes'[n].isDragging
                         /\ nodes'[n].alpha < FullAlpha
                         /\ \A m \in DOMAIN nodes \ {n} :
                               nodes'[n].zIndex > nodes'[m].zIndex
                    ELSE nodes' = nodes
          /\ \A n \in DOMAIN nodes :
                ~nodes[n].isDragging /\ nodes'[n].isDragging
                   => /\ lastOp'.op = "titlePointerDown"
                      /\ lastOp'.n = n
                      /\ lastOp'.button = 0
          /\ \A n \in DOMAIN nodes :
                lastOp'.op = "pointerUp" /\ lastOp'.n = n /\ nodes[n].isDragging
                   => /\ ~nodes'[n].isDragging
                      /\ ~nodes'[n].isResizing
                      /\ nodes'[n].alpha = FullAlpha]_vars

Geometry(nd) == <<nd.x, nd.y, nd.width_, nd.height_>>

\* start of a resize, the moves during it and its end
ResizeSteps ==
    [][/\ \A n \in DOMAIN nodes :
             ~nodes[n].isResizing /\ nodes'[n].isResizing
                => /\ lastOp'.op = "wrapperPointerDown"
                   /\ lastOp'.n = n
                   /\ lastOp'.button = 0
                   /\ lastOp'.dir # Null
                   /\ nodes'[n].resizeDirection = lastOp'.dir
                   /\ nodes'[n].startMousePosition # Null
                   /\ nodes'[n].startResizeBounds
                         = Rect(nodes[n].x, nodes[n].y, nodes[n].width_, nodes[n].height_)
       /\ \A n \in DOMAIN nodes :
             lastOp'.op = "pointerMove" /\ nodes[n].isResizing
                => /\ nodes'[n].startResizeBounds = nodes[n].startResizeBounds
                   /\ nodes'[n].startMousePosition = nodes[n].startMousePosition
                   /\ nodes'[n].resizeDirection = nodes[n].resizeDirection
                   \* the same result from any other current geometry
                   /\ Geometry(nodes'[n])
                         = Geometry(OnGlobalPointerMove(
                               [nodes[n] EXCEPT !.x = 0, !.y = 0,
                                                !.width_ = MinW, !.height_ = MinH],
                               lastOp'.g))
       /\ \A n \in DOMAIN nodes :
             lastOp'.op = "pointerUp"
                => /\ ~nodes'[n].isResizing
                   /\ nodes'[n].resizeDirection = Null
                   /\ nodes'[n].startResizeBounds = Null
                   /\ nodes'[n].startMousePosition = Null]_vars

\* C27: a resize starts only on a button 0 pointer-down where
\* getResizeDirection gives a direction, and snapshots the pointer and the
\* bounds; every size and position during it comes from the snapshot and
\* the current pointer alone; the pointer-up clears isResizing, snapshot and
\* direction, and the pointer moves after it leave width, height and
\* position as they are.
C27_ResizeLifecycle ==
    /\ ResizeSteps
    /\ [][\A n \in DOMAIN nodes :
             (/\ lastOp.op = "pointerUp"
              /\ n \in lastOp.resized
              /\ lastOp'.op = "pointerMove")
                => Geometry(nodes'[n]) = Geometry(nodes[n])]_vars

\* node-local coordinates around the two edges of a side of length len: on
\* and next to the border thickness, and on and next to 15 screen pixels
\* outside at the scales 2, 1 and 1/2
EdgeProbes(len) ==
    LET off == {-31, -30, -16, -15, -8, -7, 0, 5, 6}
    IN  {o : o \in off} \cup {len - o : o \in off} \cup {len \div 2}

\* the point (x, y) is more than 15 screen pixels outside a w x h node
FarOutside(w, h, x, y) ==
    \/ x * scaleQ < -(ThresholdOutsideScreen * ScaleDen)
    \/ (x - w) * scaleQ > ThresholdOutsideScreen * ScaleDen
    \/ y * scaleQ < -(ThresholdOutsideScreen * ScaleDen)
    \/ (y - h) * scaleQ > ThresholdOutsideScreen * ScaleDen

\* the compass direction of the edge bands a point that is not far outside
\* lies in: vertical part and horizontal part, "" where in neither band
BandsOf(w, h, x, y) ==
    [v |-> IF y <= BorderThickness THEN "n"
           ELSE IF y >= h - BorderThickness THEN "s" ELSE "",
     h |-> IF x <= BorderThickness THEN "w"
           ELSE IF x >= w - BorderThickness THEN "e" ELSE ""]

\* C28: getResizeDirection is null more than 15 screen pixels outside the
\* node and in the interior more than borderThickness from every edge, and
\* otherwise the compass direction of the bands the point is in; a
\* pointer-down that gets null starts no resize, and a resize moves only the
\* edges its direction names.
C28_ResizeDirectionBands ==
    /\ [](\A n \in DOMAIN nodes :
            LET w == nodes[n].width_
                h == nodes[n].height_
            IN  \A x \in EdgeProbes(w), y \in EdgeProbes(h) :
                   GetResizeDirection(nodes[n], x, y)
                      = IF FarOutside(w, h, x, y) THEN Null
                        ELSE IF BandsOf(w, h, x, y) = [v |-> "", h |-> ""] THEN Null
                        ELSE BandsOf(w, h, x, y))
    /\ [][/\ lastOp'.op = "wrapperPointerDown" /\ lastOp'.dir = Null
             => nodes' = nodes
          /\ \A n \in DOMAIN nodes :
                lastOp'.op = "pointerMove" /\ nodes[n].isResizing
                   => LET dir == nodes[n].resizeDirection
                      IN  /\ dir.h = "" => /\ nodes'[n].x = nodes[n].x
                                           /\ nodes'[n].width_ = nodes[n].width_
                          /\ dir.v = "" => /\ nodes'[n].y = nodes[n].y
                                           /\ nodes'[n].height_ = nodes[n].height_
                          /\ dir.h = "e" => nodes'[n].x = nodes[n].x
                          /\ dir.v = "s" => nodes'[n].y = nodes[n].y]_vars

\* a resize by the south-east corner at scale 2 has changed width and height
\* and left the position
C28_Witness ==
    /\ lastOp.op = "pointerMove"
    /\ nodes["a"].isResizing
    /\ nodes["a"].resizeDirection = [v |-> "s", h |-> "e"]
    /\ nodes["a"].width_ # DefaultWidth /\ nodes["a"].height_ # DefaultHeight
    /\ nodes["a"].x = 200 /\ nodes["a"].y = 100
    /\ scaleQ = 2 * ScaleDen

(***************************************************************************)
(* The grid's draw cache after a regeneration, under SpecGrid              *)
(***************************************************************************)
\* C29: when Grid.update() has regenerated the grid, the edges of
\* lastDrawnBounds are multiples of 1000, the rectangle contains the
\* viewport bounds widened by 2000 on every side, and lastScale is the
\* current scale.
C29_DrawnBoundsSnappedAndPadded ==
    lastOp.op \in {"init", "tick", "onWheel"} /\ redrawCount = 1
        => LET b == ViewportGetBounds(panX, panY, scaleQ)
               d == lastDrawnBounds
           IN  /\ d.x % MajorSize = 0
               /\ d.y % MajorSize = 0
               /\ (d.x + d.width) % MajorSize = 0
               /\ (d.y + d.height) % MajorSize = 0
               /\ d.x <= b.left - 2 * MajorSize
               /\ d.y <= b.top - 2 * MajorSize
               /\ d.x + d.width >= b.right + 2 * MajorSize
               /\ d.y + d.height >= b.bottom + 2 * MajorSize
               /\ lastScale = ViewportGetScale(scaleQ)

\* a regeneration after a zoom out and a pan, away from the first draw
C29_Witness ==
    /\ lastOp.op = "tick" /\ redrawCount = 1
    /\ scaleQ < ScaleDen
    /\ panX # 0
    /\ lastDrawnBounds # DrawArea(ViewportGetBounds(0, 0, ScaleDen))

(***************************************************************************)
(* Specification of the loop of adjustPositionForCollisions, one iteration *)
(* per step                                                                *)
(***************************************************************************)
\* k nodes of 400 x 600 side by side, 500 apart, in map order from the left
RowOfNodes(k) == [i \in 1..k |-> InPixels(500 * (i - 1), 0, 400, 600)]

\* a row longer than the loop's attempts
LongRow == 11

ShiftLayouts == TrackedLayouts \cup {RowOfNodes(LongRow - 1), RowOfNodes(LongRow)}

\* left of, just touching, inside, just right of and far from the node at
\* the origin
ShiftStarts ==
    {Point(x * PosDen, y * PosDen) :
        x \in {-470, -469, 0, 419, 420, 3000}, y \in {0, -2000}}

\* the call: adjustedPos = { ...position }, attempts = 0
adjustPositionForCollisions(tracked, pos, size) ==
    /\ lastOp' = [op |-> "adjustPositionForCollisions",
                  tracked |-> tracked, size |-> size, from |-> pos,
                  pos |-> pos, attempts |-> 0, returned |-> FALSE]
    /\ UNCHANGED layoutVars
    /\ LayoutFrame

\* one test of the while condition, with the loop body or the return
adjustLoop ==
    /\ lastOp.op = "adjustPositionForCollisions"
    /\ ~lastOp.returned
    /\ LET c == FindCollision(lastOp.tracked, lastOp.pos, lastOp.size)
       IN  IF lastOp.attempts < MaxAttempts /\ c # 0
           THEN lastOp' = [lastOp EXCEPT
                              !.pos.x = lastOp.tracked[c].x + lastOp.tracked[c].width
                                           + NodeSpacing * PosDen,
                              !.attempts = @ + 1]
           ELSE lastOp' = [lastOp EXCEPT !.returned = TRUE]
    /\ UNCHANGED layoutVars
    /\ LayoutFrame

NextShift ==
    \/ \E tracked \in ShiftLayouts, pos \in ShiftStarts, size \in NewSizes :
          adjustPositionForCollisions(tracked, pos, size)
    \/ adjustLoop

SpecShift == InitLayout /\ [][NextShift]_vars

\* C30: adjustPositionForCollisions returns after at most 10 shifts; every
\* shift makes x strictly larger and leaves y alone; when it returns after
\* fewer than 10 shifts the rectangle overlaps no tracked node inflated by
\* half the node spacing. What it returns is the value of the function.
C30_ShiftsBoundedAndRightwards ==
    /\ [](lastOp.op = "adjustPositionForCollisions"
            => /\ lastOp.attempts <= MaxAttempts
               /\ AdjustPositionForCollisions(lastOp.tracked, lastOp.pos, lastOp.size,
                                              lastOp.attempts)
                     = AdjustPositionForCollisions(lastOp.tracked, lastOp.from,
                                                   lastOp.size, 0)
               /\ (lastOp.returned)
                     => /\ lastOp.pos = AdjustPositionForCollisions(
                                            lastOp.tracked, lastOp.from, lastOp.size, 0)
                        /\ lastOp.attempts < MaxAttempts
                              => \A i \in 1..Len(lastOp.tracked) :
                                    ~Overlaps(lastOp.pos, lastOp.size, lastOp.tracked[i]))
    \* a step of the loop, not the start of another call
    /\ [][(/\ lastOp.op = "adjustPositionForCollisions"
           /\ lastOp'.op = "adjustPositionForCollisions"
           /\ (lastOp'.attempts > 0 \/ lastOp'.returned))
             => \/ /\ lastOp'.attempts = lastOp.attempts + 1
                   /\ lastOp'.pos.x > lastOp.pos.x
                   /\ lastOp'.pos.y = lastOp.pos.y
                   /\ ~lastOp'.returned
                \/ /\ lastOp'.returned
                   /\ lastOp'.attempts = lastOp.attempts
                   /\ lastOp'.pos = lastOp.pos]_vars

\* the call returned after ten shifts along a row of eleven nodes, still on
\* the eleventh
C30_Witness ==
    /\ lastOp.op = "adjustPositionForCollisions"
    /\ lastOp.returned
    /\ lastOp.attempts = MaxAttempts
    /\ lastOp.pos.x > lastOp.from.x
    /\ \E i \in 1..Len(lastOp.tracked) :
          Overlaps(lastOp.pos, lastOp.size, lastOp.tracked[i])

\* the call returned after three shifts, clear of every tracked node
C30_WitnessFree ==
    /\ lastOp.op = "adjustPositionForCollisions"
    /\ lastOp.returned
    /\ lastOp.attempts = 3
    /\ Len(lastOp.tracked) = 3

(***************************************************************************)
(* The layout manager's focus against the z-order, under SpecNode          *)
(***************************************************************************)
\* C31: in every state the layout manager's focused node is the node with
\* the highest z-index: a node brought to front by a drag start, a resize
\* start or a text focus becomes the focused node.
C31_FocusedNodeIsFrontmost ==
    /\ focusedNodePath # NullRef
    /\ MapHas(layoutNodes, focusedNodePath)
    /\ \A n \in DOMAIN nodes :
          nodes[n].zIndex <= nodes[MapGet(layoutNodes, focusedNodePath)].zIndex

(***************************************************************************)
(* Extension host: MessageBus.handleMessage and the InfiniteEditPanel      *)
(***************************************************************************)
\* the commands InfiniteEditPanel.registerMessageHandlers registers, as far
\* as the webview sends them here
RegisteredCommands == {"ready", "saveFile", "findFiles", "updateFile"}
\* the commands of the messages the webview posts: the registered ones and
\* ModelManager's 'getFileContent'
HostCommands == RegisteredCommands \cup {"getFileContent"}
\* the handlers whose promise can reject: the others catch what they await
ThrowingCommands == {"findFiles"}

RequestIds == {"0", "1", "2"}
\* bound on the number of messages the host receives
MaxReceived == 2
\* bound on the number of openFile calls
MaxOpenCalls == 2

HostFrame ==
    UNCHANGED <<maskVars, viewVars, gridVars, panVars, nodeVars,
                layoutVars, canvasVars, messageVars, extVars>>

\* the request ids of the messages received so far
ReceivedIds == {received[i].requestId : i \in 1..Len(received)} \ {NullRef}

\* the synchronous part of the handler of command: 'ready' sets _isReady and
\* flushes the queue, the others touch nothing of the panel
RunHandler(command) ==
    IF command = "ready"
    THEN /\ isReady' = TRUE
         /\ posted' = posted \o pendingMessages
         /\ pendingMessages' = <<>>
    ELSE UNCHANGED <<isReady, posted, pendingMessages>>

\* MessageBus.handleMessage(message) up to the await of the handler
handleMessage(message) ==
    /\ Len(received) < MaxReceived
    /\ message.requestId \notin ReceivedIds
    /\ received' = Append(received, message)
    /\ IF message.command \in RegisteredCommands
       THEN /\ RunHandler(message.command)
            /\ handling' = Append(handling, message)
       ELSE UNCHANGED <<isReady, posted, pendingMessages, handling>>
    /\ UNCHANGED openCalls
    /\ lastOp' = [op |-> "handleMessage", message |-> message]
    /\ HostFrame

\* the list without its i-th element
DropAt(list, i) == SubSeq(list, 1, i - 1) \o SubSeq(list, i + 1, Len(list))

\* a reply without its requestId test
ReplyOf_Always(message, command) ==
    <<[command |-> command, requestId |-> message.requestId]>>

\* what handleMessage posts after the handler: the reply, if the message
\* has a requestId
ReplyOf(message, command) ==
    IF message.requestId # NullRef
    THEN <<[command |-> command, requestId |-> message.requestId]>>
    ELSE <<>>

\* the awaited handler of the i-th call in flight returns or, where it can,
\* throws: the rest of handleMessage
handlerSettles(i, threw) ==
    /\ i \in 1..Len(handling)
    /\ threw => handling[i].command \in ThrowingCommands
    /\ posted' = posted \o ReplyOf(handling[i], IF threw THEN "error" ELSE "response")
    /\ handling' = DropAt(handling, i)
    /\ UNCHANGED <<isReady, pendingMessages, received, openCalls>>
    /\ lastOp' = [op |-> "handlerSettles", message |-> handling[i], threw |-> threw]
    /\ HostFrame

\* a queue that is posted as well as kept
QueueOrPost_Both(ready, queue, out, message) ==
    [queue |-> Append(queue, message), out |-> Append(out, message)]

\* the end of InfiniteEditPanel.openFile: post now or queue
QueueOrPost(ready, queue, out, message) ==
    IF ready THEN [queue |-> queue, out |-> Append(out, message)]
    ELSE [queue |-> Append(queue, message), out |-> out]

\* InfiniteEditPanel.openFile(document); call stands for the document
openFile ==
    /\ openCalls < MaxOpenCalls
    /\ openCalls' = openCalls + 1
    /\ LET r == QueueOrPost(isReady, pendingMessages, posted,
                            [command |-> "openFile", call |-> openCalls + 1])
       IN  pendingMessages' = r.queue /\ posted' = r.out
    /\ UNCHANGED <<isReady, handling, received>>
    /\ lastOp' = [op |-> "openFile", call |-> openCalls + 1]
    /\ HostFrame

HostMessages ==
    [command : HostCommands, requestId : RequestIds \cup {NullRef}]

NextHost ==
    \/ \E message \in HostMessages : handleMessage(message)
    \/ \E i \in 1..MaxReceived, threw \in BOOLEAN : handlerSettles(i, threw)
    \/ openFile

SpecHost == InitGrid /\ [][NextHost]_vars

\* the replies posted so far for request id r
RepliesTo(r) ==
    {i \in 1..Len(posted) :
        posted[i].command \in {"response", "error"} /\ posted[i].requestId = r}

\* C32: every message with a requestId that reached handleMessage gets
\* exactly one reply with its requestId, none while its handler is awaited
\* and one from then on, whatever its command; no reply is posted for a
\* message without a requestId.
C32_OneReplyPerRequest ==
    /\ \A i \in 1..Len(received) :
          received[i].requestId # NullRef
             => Cardinality(RepliesTo(received[i].requestId))
                   = IF \E j \in 1..Len(handling) : handling[j] = received[i]
                     THEN 0 ELSE 1
    /\ \A i \in 1..Len(posted) :
          posted[i].command \in {"response", "error"}
             => posted[i].requestId \in ReceivedIds

\* the calls of the 'openFile' messages of a list, in the list's order
RECURSIVE OpenFileCalls(_)
OpenFileCalls(list) ==
    IF list = <<>> THEN <<>>
    ELSE (IF Head(list).command = "openFile" THEN <<Head(list).call>> ELSE <<>>)
            \o OpenFileCalls(Tail(list))

\* C37: every 'openFile' message of InfiniteEditPanel.openFile is posted
\* exactly once, never before 'ready', in the order of the calls; messages
\* requested before 'ready' are queued and flushed in FIFO order at 'ready',
\* after which the queue is empty and later messages are posted at once.
C37_OpenFilePostedOnceInOrder ==
    /\ OpenFileCalls(posted) \o OpenFileCalls(pendingMessages)
          = [i \in 1..openCalls |-> i]
    /\ Len(OpenFileCalls(pendingMessages)) = Len(pendingMessages)
    /\ isReady => pendingMessages = <<>>
    /\ ~isReady => OpenFileCalls(posted) = <<>>

\* 'ready' has just flushed two queued messages
C37_Witness ==
    /\ lastOp.op = "handleMessage"
    /\ lastOp.message.command = "ready"
    /\ OpenFileCalls(posted) = <<1, 2>>
    /\ pendingMessages = <<>>

\* a message was posted at once after the flush of a queued one
C37_WitnessLater ==
    /\ lastOp.op = "openFile"
    /\ isReady
    /\ OpenFileCalls(posted) = <<1, 2>>
    /\ \E i \in 1..Len(received) :
          received[i].command = "ready" /\ i > 1

(***************************************************************************)
(* ModelManager: reference counting, temporary models, dirty state, save   *)
(***************************************************************************)
\* ModelManager.TEMP_MODEL_CLEANUP_DELAY, in ms
CleanupDelay == 30000
\* the texts a model holds
Texts == {"a", "b"}
\* bounds: ManagedModels created, references handed out, and requests
\* ('saveFile', 'getFileContent') in flight
MaxModels == 1
MaxRefs == 2
MaxInFlight == 1

ModelFrame ==
    UNCHANGED <<maskVars, viewVars, gridVars, panVars, nodeVars,
                layoutVars, canvasVars, messageVars, hostVars, syncVars>>

\* the references to the ManagedModel at m that are not disposed
LiveRefs(m) ==
    {r \in 1..Len(modelRefs) : modelRefs[r].managed = m /\ ~modelRefs[r].disposed}

\* clearTimeout(handle)
ClearTimeout(pending, handle) == {t \in pending : t.id # handle}

\* an acquisition that leaves a pending cleanup alone
ClearCleanup_Keep(st, m) == st

\* `if (managed.cleanupTimeout) { clearTimeout(...); managed.cleanupTimeout =
\* undefined; }` on the state st = [models, managed, timers]
ClearCleanup(st, m) ==
    IF st.managed[m].cleanupTimeout # NoTimer
    THEN [st EXCEPT !.timers = ClearTimeout(@, st.managed[m].cleanupTimeout),
                    !.managed[m].cleanupTimeout = NoTimer]
    ELSE st

\* an acquisition that does not count
CountRef_Not(st, m) == st

\* managed.refCount++
CountRef(st, m) == [st EXCEPT !.managed[m].refCount = @ + 1]

\* a ManagedModel as both acquisitions create it
NewManaged(key, content, temporary) ==
    [key |-> key, content |-> content, refCount |-> 1, isDirty |-> FALSE,
     originalContent |-> content, isTemporary |-> temporary,
     cleanupTimeout |-> NoTimer, disposed |-> FALSE]

\* ModelManager.disposeModel(key) on the state st
DisposeModel(st, key) ==
    IF st.models[key] = 0 THEN st
    ELSE LET m == st.models[key]
         IN  [models |-> [st.models EXCEPT ![key] = 0],
              managed |-> [st.managed EXCEPT ![m].disposed = TRUE],
              timers |-> IF st.managed[m].cleanupTimeout # NoTimer
                         THEN ClearTimeout(st.timers, st.managed[m].cleanupTimeout)
                         ELSE st.timers]

\* ModelManager.releaseReference(managed) on the state st; handle is the
\* handle setTimeout returns if it is called
ReleaseReference(st, m, handle) ==
    LET st1 == [st EXCEPT !.managed[m].refCount = @ - 1]
    IN  IF st1.managed[m].refCount <= 0
        THEN IF st1.managed[m].isTemporary
             THEN [st1 EXCEPT
                     !.managed[m].cleanupTimeout = handle,
                     !.timers = @ \cup {[id |-> handle, left |-> CleanupDelay,
                                         key |-> st1.managed[m].key]}]
             ELSE DisposeModel(st1, st1.managed[m].key)
        ELSE st1

ModelState == [models |-> models, managed |-> managed, timers |-> timers]

SetModelState(st) ==
    /\ models' = st.models
    /\ managed' = st.managed
    /\ timers' = st.timers

\* ModelManager.getOrCreateModelReference(uri, content, filePath)
getOrCreateModelReference(key, content) ==
    /\ Len(modelRefs) < MaxRefs
    /\ IF models[key] # 0
       THEN LET m == models[key]
                st == CountRef([ClearCleanup(ModelState, m)
                                   EXCEPT !.managed[m].isTemporary = FALSE], m)
            IN  /\ SetModelState(st)
                /\ modelRefs' = Append(modelRefs, [managed |-> m, disposed |-> FALSE])
       ELSE /\ Len(managed) < MaxModels
            /\ managed' = Append(managed, NewManaged(key, content, FALSE))
            /\ models' = [models EXCEPT ![key] = Len(managed) + 1]
            /\ modelRefs' = Append(modelRefs, [managed |-> Len(managed) + 1,
                                               disposed |-> FALSE])
            /\ UNCHANGED timers
    /\ UNCHANGED <<now, timerCount, saving, fetching>>
    /\ lastOp' = [op |-> "getOrCreateModelReference", key |-> key,
                  cancelled |-> timers \ timers']
    /\ ModelFrame

\* ModelManager.getOrCreateTemporaryModelReference(uri, filePath) up to its
\* return or its await of 'getFileContent'
getOrCreateTemporaryModelReference(key) ==
    /\ IF models[key] # 0
       THEN LET m == models[key]
                st == CountRef(ClearCleanup(ModelState, m), m)
            IN  /\ Len(modelRefs) < MaxRefs
                /\ SetModelState(st)
                /\ modelRefs' = Append(modelRefs, [managed |-> m, disposed |-> FALSE])
                /\ UNCHANGED fetching
       ELSE /\ Len(saving) + fetching < MaxInFlight
            /\ fetching' = fetching + 1
            /\ UNCHANGED <<models, managed, timers, modelRefs>>
    /\ UNCHANGED <<now, timerCount, saving>>
    /\ lastOp' = [op |-> "getOrCreateTemporaryModelReference", key |-> key,
                  cancelled |-> timers \ timers']
    /\ ModelFrame

\* the rest of getOrCreateTemporaryModelReference once 'getFileContent' is
\* settled: outcome is the content, "null" or "reject".  createModel throws
\* when Monaco has a model of this URI by now.  keep = FALSE is the caller
\* ensureModelsForLocations, which disposes the reference at once.
fetchSettles(key, outcome, keep) ==
    /\ fetching > 0
    /\ fetching' = fetching - 1
    /\ IF outcome \in Texts /\ models[key] = 0
       THEN /\ Len(managed) < MaxModels
            /\ Len(modelRefs) < MaxRefs
            /\ LET m == Len(managed) + 1
                   st == [models |-> [models EXCEPT ![key] = m],
                          managed |-> Append(managed, NewManaged(key, outcome, TRUE)),
                          timers |-> timers]
               IN  IF keep
                   THEN /\ SetModelState(st)
                        /\ modelRefs' = Append(modelRefs, [managed |-> m,
                                                           disposed |-> FALSE])
                        /\ UNCHANGED timerCount
                   ELSE /\ SetModelState(ReleaseReference(st, m, timerCount + 1))
                        /\ modelRefs' = Append(modelRefs, [managed |-> m,
                                                           disposed |-> TRUE])
                        /\ timerCount' = timerCount + 1
       ELSE UNCHANGED <<models, managed, timers, modelRefs, timerCount>>
    /\ UNCHANGED <<now, saving>>
    /\ lastOp' = [op |-> "fetchSettles", key |-> key, outcome |-> outcome,
                  keep |-> keep]
    /\ ModelFrame

\* IModelReference.dispose() of the reference r
disposeRef(r) ==
    /\ r \in 1..Len(modelRefs)
    /\ IF modelRefs[r].disposed
       THEN UNCHANGED <<models, managed, timers, modelRefs, timerCount>>
       ELSE /\ modelRefs' = [modelRefs EXCEPT ![r].disposed = TRUE]
            /\ SetModelState(ReleaseReference(ModelState, modelRefs[r].managed,
                                              timerCount + 1))
            /\ timerCount' = IF Cardinality(timers') > Cardinality(timers)
                             THEN timerCount + 1 ELSE timerCount
    /\ UNCHANGED <<now, saving, fetching>>
    /\ lastOp' = [op |-> "dispose", r |-> r, again |-> modelRefs[r].disposed,
                  managed |-> modelRefs[r].managed,
                  others |-> LiveRefs(modelRefs[r].managed) \ {r}]
    /\ ModelFrame

\* the callback of the cleanup timeout t
cleanupTimer(t) ==
    /\ t \in timers
    /\ t.left = 0
    /\ SetModelState(DisposeModel([ModelState EXCEPT !.timers = @ \ {t}], t.key))
    /\ UNCHANGED <<now, timerCount, modelRefs, saving, fetching>>
    /\ lastOp' = [op |-> "cleanupTimer", key |-> t.key, managed |-> models[t.key]]
    /\ ModelFrame

\* the user types in an editor of the model at m: the model's content
\* changes and its onDidChangeContent listener runs
editModel(m, content) ==
    /\ m \in 1..Len(managed)
    /\ ~managed[m].disposed
    /\ content # managed[m].content
    /\ managed' = [managed EXCEPT ![m].content = content,
                                  ![m].isDirty = content # managed[m].originalContent]
    /\ UNCHANGED <<clockVars, models, modelRefs, saving, fetching>>
    /\ lastOp' = [op |-> "editModel", managed |-> m]
    /\ ModelFrame

\* IModelReference.save() of the reference r up to saveModel's await
saveRef(r) ==
    /\ r \in 1..Len(modelRefs)
    /\ ~modelRefs[r].disposed
    /\ Len(saving) + fetching < MaxInFlight
    /\ saving' = Append(saving, [managed |-> modelRefs[r].managed,
                                 content |-> managed[modelRefs[r].managed].content,
                                 written |-> FALSE, reply |-> NullRef])
    /\ UNCHANGED <<clockVars, models, managed, modelRefs, fetching>>
    /\ lastOp' = [op |-> "save", r |-> r]
    /\ ModelFrame

\* the host handles the 'saveFile' request of the i-th save: the handler
\* writes the file or fails to, catches the failure and returns, and
\* handleMessage posts the reply
saveFileHandler(i, writeOk) ==
    /\ i \in 1..Len(saving)
    /\ saving[i].reply = NullRef
    /\ LET message == [command |-> "saveFile", requestId |-> "0"]
           threw == ~writeOk /\ "saveFile" \in ThrowingCommands
       IN  saving' = [saving EXCEPT
                        ![i].written = writeOk,
                        ![i].reply = ReplyOf(message, IF threw THEN "error"
                                                      ELSE "response")[1].command]
    /\ UNCHANGED <<clockVars, models, managed, modelRefs, fetching>>
    /\ lastOp' = [op |-> "saveFileHandler", writeOk |-> writeOk]
    /\ ModelFrame

\* the reply reaches the webview: the request's promise is settled and
\* saveModel goes on after its await, or throws
saveSettles(i) ==
    /\ i \in 1..Len(saving)
    /\ saving[i].reply # NullRef
    /\ saving' = DropAt(saving, i)
    /\ managed' = IF saving[i].reply = "response"
                  THEN [managed EXCEPT
                          ![saving[i].managed].originalContent = saving[i].content,
                          ![saving[i].managed].isDirty = FALSE]
                  ELSE managed
    /\ UNCHANGED <<clockVars, models, modelRefs, fetching>>
    /\ lastOp' = [op |-> "saveSettles", managed |-> saving[i].managed,
                  written |-> saving[i].written, reply |-> saving[i].reply,
                  before |-> managed[saving[i].managed]]
    /\ ModelFrame

\* half the cleanup delay passes
elapse ==
    /\ \E t \in timers : t.left > 0
    /\ timers' = {[t EXCEPT !.left = IF @ > CleanupDelay \div 2
                                     THEN @ - CleanupDelay \div 2 ELSE 0] :
                     t \in timers}
    /\ UNCHANGED <<now, timerCount, modelVars>>
    /\ lastOp' = [op |-> "elapse"]
    /\ ModelFrame

NextModels ==
    \/ \E key \in ModelKeys, content \in Texts :
          getOrCreateModelReference(key, content)
    \/ \E key \in ModelKeys : getOrCreateTemporaryModelReference(key)
    \/ \E key \in ModelKeys, outcome \in Texts \cup {"null", "reject"},
          keep \in BOOLEAN : fetchSettles(key, outcome, keep)
    \/ \E r \in 1..MaxRefs : disposeRef(r)
    \/ \E t \in timers : cleanupTimer(t)
    \/ \E m \in 1..MaxModels, content \in Texts : editModel(m, content)
    \/ \E r \in 1..MaxRefs : saveRef(r)
    \/ \E i \in 1..MaxInFlight, writeOk \in BOOLEAN : saveFileHandler(i, writeOk)
    \/ \E i \in 1..MaxInFlight : saveSettles(i)
    \/ elapse

SpecModels == InitGrid /\ [][NextModels]_vars

\* C33: when the host fails to write the file of a 'saveFile' request, the
\* request is rejected with an 'error' reply and the model is not marked as
\* saved: isDirty and originalContent are as before.
C33_FailedWriteKeepsDirty ==
    (lastOp.op = "saveSettles" /\ ~lastOp.written)
       => /\ lastOp.reply = "error"
          /\ managed[lastOp.managed].isDirty = lastOp.before.isDirty
          /\ managed[lastOp.managed].originalContent = lastOp.before.originalContent

\* C34: a managed model is dirty iff its content differs from
\* originalContent, also after a save during which the user went on typing.
C34_DirtyIffContentDiffers ==
    \A m \in 1..Len(managed) :
       ~managed[m].disposed
          => (managed[m].isDirty <=> managed[m].content # managed[m].originalContent)

\* the ManagedModel at m is in ModelManager.models
InManager(m) == \E k \in ModelKeys : models[k] = m

\* C35: refCount is the number of references handed out and not disposed;
\* a second dispose() of a reference changes nothing; a non-temporary model
\* stays in the manager exactly as long as its refCount is positive, and a
\* model that was disposed has no live reference.
C35_RefCountMatchesReferences ==
    /\ [](\A m \in 1..Len(managed) :
             /\ managed[m].refCount = Cardinality(LiveRefs(m))
             /\ managed[m].disposed <=> ~InManager(m)
             /\ (InManager(m) /\ ~managed[m].isTemporary) => managed[m].refCount >= 1
             /\ managed[m].disposed => LiveRefs(m) = {})
    /\ [][/\ (lastOp'.op = "dispose" /\ lastOp'.again)
                => UNCHANGED <<modelVars, clockVars>>
          /\ (lastOp'.op = "dispose" /\ ~lastOp'.again)
                => /\ managed'[lastOp'.managed].refCount
                         = managed[lastOp'.managed].refCount - 1
                   /\ (managed'[lastOp'.managed].disposed
                          <=> (lastOp'.others = {}
                                  /\ ~managed[lastOp'.managed].isTemporary))]_vars

\* a reference was disposed twice while another keeps the model alive
C35_Witness ==
    /\ lastOp.op = "dispose"
    /\ lastOp.again
    /\ InManager(lastOp.managed)
    /\ managed[lastOp.managed].refCount = 1

\* the last reference of a non-temporary model was disposed, and the model
\* with it
C35_WitnessDisposed ==
    /\ lastOp.op = "dispose"
    /\ ~lastOp.again
    /\ Len(modelRefs) = 2
    /\ managed[lastOp.managed].disposed
    /\ ~managed[lastOp.managed].isTemporary

\* the cleanup timeouts pending for the key k
CleanupTimers(k) == {t \in timers : t.key = k}

\* C36: a temporary model whose last reference is released stays in the
\* manager with one cleanup timeout of CleanupDelay pending; the timeout
\* disposes it only after the whole delay, with refCount 0; an acquisition
\* cancels the timeout; at most one timeout is pending per model.
C36_TemporaryCleanup ==
    /\ [](\A k \in ModelKeys :
             /\ Cardinality(CleanupTimers(k)) <= 1
             /\ \A t \in CleanupTimers(k) :
                   /\ models[k] # 0
                   /\ managed[models[k]].isTemporary
                   /\ managed[models[k]].refCount = 0
                   /\ managed[models[k]].cleanupTimeout = t.id)
    /\ [][/\ (lastOp'.op = "dispose" /\ ~lastOp'.again
                 /\ managed[lastOp'.managed].isTemporary /\ lastOp'.others = {})
                => /\ models' = models
                   /\ ~managed'[lastOp'.managed].disposed
                   /\ CleanupTimers(managed[lastOp'.managed].key) = {}
                   /\ \E t \in timers' : t.left = CleanupDelay
          /\ \A t \in timers' :
                \/ t.id > timerCount /\ t.left = CleanupDelay
                \/ \E u \in timers :
                      /\ u.id = t.id /\ u.key = t.key
                      /\ IF lastOp'.op = "elapse"
                         THEN t.left < u.left \/ t.left = 0
                         ELSE t.left = u.left
          /\ lastOp'.op = "cleanupTimer"
                => /\ \E t \in timers \ timers' : t.left = 0
                   /\ lastOp'.managed # 0
                         => managed[lastOp'.managed].refCount = 0
          /\ lastOp'.op \in {"getOrCreateModelReference",
                             "getOrCreateTemporaryModelReference"}
                => CleanupTimers(lastOp'.key) \cap timers' = {}]_vars

\* the cleanup timeout has disposed an unreferenced temporary model
C36_Witness ==
    /\ lastOp.op = "cleanupTimer"
    /\ lastOp.managed # 0
    /\ managed[lastOp.managed].disposed
    /\ managed[lastOp.managed].isTemporary

\* an acquisition has cancelled a cleanup half way through the delay
C36_WitnessCancelled ==
    /\ lastOp.op \in {"getOrCreateModelReference",
                      "getOrCreateTemporaryModelReference"}
    /\ \E t \in lastOp.cancelled : t.left = CleanupDelay \div 2
    /\ timers = {}

(***************************************************************************)
(* One EditorNode's content against the host's document: the debounced     *)
(* 'updateFile' and the 'didChangeTextDocument' notifications              *)
(***************************************************************************)
\* the delay of EditorNode.onContentChanged, in ms
DebounceDelay == 300
\* the step of the clock
SyncTick == DebounceDelay \div 2
\* bounds: changes typed, messages queued in each direction, and the clock
MaxTyped == 3
MaxQueue == 1
MaxSyncNow == 900

SyncFrame ==
    UNCHANGED <<maskVars, viewVars, gridVars, panVars, nodeVars,
                layoutVars, canvasVars, messageVars, hostVars, modelVars>>

\* EditorNode.onContentChanged on the timeouts st = [timers, timeout]
OnContentChanged(st, handle) ==
    [timers |-> (IF st.timeout # NoTimer THEN ClearTimeout(st.timers, st.timeout)
                 ELSE st.timers)
                   \cup {[id |-> handle, left |-> DebounceDelay, key |-> "debounce"]},
     timeout |-> handle]

\* the editor's onDidChangeModelContent listener
ContentListener(isUpdatingFromBackend, st, handle) ==
    IF isUpdatingFromBackend THEN st ELSE OnContentChanged(st, handle)

DebounceState == [timers |-> timers, timeout |-> contentChangeTimeout]

\* the user changes the text of the editor
type(content) ==
    /\ ~destroyed
    /\ Len(typed) < MaxTyped
    /\ content # edContent
    /\ edContent' = content
    /\ LET st == ContentListener(FALSE, DebounceState, timerCount + 1)
       IN  timers' = st.timers /\ contentChangeTimeout' = st.timeout
    /\ timerCount' = timerCount + 1
    /\ typed' = Append(typed, [at |-> now, content |-> content])
    /\ UNCHANGED <<now, destroyed, toHost, hostDoc, toWebview, sentUpdates>>
    /\ lastOp' = [op |-> "type", content |-> content]
    /\ SyncFrame

\* the callback of the debounce timeout t; on a disposed editor getValue()
\* returns the empty text or the last one
debounceTimer(t, content) ==
    /\ t \in timers
    /\ t.left = 0
    /\ content \in (IF destroyed THEN {"", edContent} ELSE {edContent})
    /\ Len(toHost) < MaxQueue
    /\ timers' = timers \ {t}
    /\ contentChangeTimeout' = NoTimer
    /\ toHost' = Append(toHost, [content |-> content, tag |-> Len(typed)])
    /\ sentUpdates' = Append(sentUpdates, [at |-> now, content |-> content,
                                           tag |-> Len(typed),
                                           editor |-> edContent,
                                           destroyed |-> destroyed])
    /\ UNCHANGED <<now, timerCount, edContent, destroyed, typed, hostDoc, toWebview>>
    /\ lastOp' = [op |-> "debounceTimer", content |-> content]
    /\ SyncFrame

\* the host's 'updateFile' handler on the oldest message, and the
\* onDidChangeTextDocument listener the applied edit calls; an edit that
\* changes nothing may or may not be reported
updateFileHandler(notify) ==
    /\ toHost # <<>>
    /\ Len(toWebview) < MaxQueue
    /\ Head(toHost).content # hostDoc => notify
    /\ toHost' = Tail(toHost)
    /\ hostDoc' = Head(toHost).content
    /\ toWebview' = IF notify THEN Append(toWebview, Head(toHost)) ELSE toWebview
    /\ UNCHANGED <<clockVars, edContent, contentChangeTimeout, destroyed, typed,
                   sentUpdates>>
    /\ lastOp' = [op |-> "updateFileHandler", notify |-> notify]
    /\ SyncFrame

\* the document is changed on the host (the native editor, a formatter):
\* the onDidChangeTextDocument listener
hostEdit(content) ==
    /\ content # hostDoc
    /\ Len(toWebview) < MaxQueue
    /\ hostDoc' = content
    /\ toWebview' = Append(toWebview, [content |-> content, tag |-> -1])
    /\ UNCHANGED <<clockVars, edContent, contentChangeTimeout, destroyed, typed,
                   toHost, sentUpdates>>
    /\ lastOp' = [op |-> "hostEdit", content |-> content]
    /\ SyncFrame

\* EditorNode.updateContent(content) on the state st = [content, timers,
\* timeout]
UpdateContent(st, content, handle) ==
    IF st.content = content THEN st
    ELSE LET after == ContentListener(TRUE, [timers |-> st.timers,
                                             timeout |-> st.timeout], handle)
         IN  [content |-> content, timers |-> after.timers,
              timeout |-> after.timeout]

\* the webview's 'message' listener on the oldest 'didChangeTextDocument':
\* CanvasManager.updateEditorContent finds the node unless it was removed
didChangeTextDocument ==
    /\ toWebview # <<>>
    /\ toWebview' = Tail(toWebview)
    /\ LET st == IF destroyed
                 THEN [content |-> edContent, timers |-> timers,
                       timeout |-> contentChangeTimeout]
                 ELSE UpdateContent([content |-> edContent, timers |-> timers,
                                     timeout |-> contentChangeTimeout],
                                    Head(toWebview).content, timerCount + 1)
       IN  /\ edContent' = st.content
           /\ timers' = st.timers
           /\ contentChangeTimeout' = st.timeout
           /\ timerCount' = IF st.timers = timers THEN timerCount
                            ELSE timerCount + 1
    /\ UNCHANGED <<now, destroyed, typed, toHost, hostDoc, sentUpdates>>
    /\ lastOp' = [op |-> "didChangeTextDocument", message |-> Head(toWebview),
                  before |-> edContent, typedCount |-> Len(typed),
                  armed |-> timers' # timers]
    /\ SyncFrame

\* CanvasManager.removeEditor(editor): EditorNode.destroy()
destroyEditor ==
    /\ ~destroyed
    /\ destroyed' = TRUE
    /\ UNCHANGED <<clockVars, edContent, contentChangeTimeout, typed, toHost,
                   hostDoc, toWebview, sentUpdates>>
    /\ lastOp' = [op |-> "destroy"]
    /\ SyncFrame

\* time passes, up to the next timeout that is due
tickSync ==
    /\ now + SyncTick <= MaxSyncNow
    /\ \A t \in timers : t.left >= SyncTick
    /\ now' = now + SyncTick
    /\ timers' = {[t EXCEPT !.left = @ - SyncTick] : t \in timers}
    /\ UNCHANGED <<timerCount, syncVars>>
    /\ lastOp' = [op |-> "tick"]
    /\ SyncFrame

NextSync ==
    \/ \E content \in Texts : type(content)
    \/ \E t \in timers, content \in Texts \cup {""} : debounceTimer(t, content)
    \/ \E notify \in BOOLEAN : updateFileHandler(notify)
    \/ \E content \in Texts : hostEdit(content)
    \/ didChangeTextDocument
    \/ destroyEditor
    \/ tickSync

SpecSync == InitGrid /\ [][NextSync]_vars

\* C38: a 'didChangeTextDocument' that echoes an 'updateFile' of this node
\* does not replace text the user typed after that update was sent, and
\* applying a notification arms no debounce timeout (no 'updateFile' back).
C38_EchoKeepsNewerText ==
    lastOp.op = "didChangeTextDocument"
       => /\ (lastOp.message.tag >= 0 /\ lastOp.typedCount > lastOp.message.tag)
                => edContent = lastOp.before
          /\ ~lastOp.armed

\* the updates sent follow the debounce rule: each the DebounceDelay after
\* the last change before it, one per burst, carrying the editor's text
DebouncedUpdates ==
    /\ \A i \in 1..Len(sentUpdates) :
          /\ sentUpdates[i].tag >= 1
          /\ sentUpdates[i].at = typed[sentUpdates[i].tag].at + DebounceDelay
          /\ \A j \in 1..(i - 1) : sentUpdates[j].tag # sentUpdates[i].tag
    /\ \A j \in 1..(Len(typed) - 1) :
          typed[j + 1].at > typed[j].at + DebounceDelay
             => \E i \in 1..Len(sentUpdates) : sentUpdates[i].tag = j

\* C39: a burst of changes, each within 300 ms of the one before, produces
\* one 'updateFile', 300 ms after the last change and with the editor's
\* content of that time; at most one debounce timeout is pending; nothing
\* is sent for a destroyed node.
C39_DebouncedUpdateFile ==
    /\ Cardinality(timers) <= 1
    /\ DebouncedUpdates
    /\ \A i \in 1..Len(sentUpdates) :
          /\ sentUpdates[i].content = sentUpdates[i].editor
          /\ ~sentUpdates[i].destroyed

(***************************************************************************)
(* Wheel zoom about the cursor                                             *)
(***************************************************************************)
\* cursor positions away from the world origin
ZoomPoints == {Point(240, 180), Point(1680, 900)}
\* the views the wheel events start from: pan offsets a drag can leave and
\* zoom levels, in tenths, at and between the bounds
ZoomPans == {-720, -75, 0, 333, 1200}
ZoomLevels == {ZoomMin, ZoomMin + 50, -101, -1, 0, 1, 50, ZoomMax - 1, ZoomMax}

\* the canvas of InitGrid after pans, zooms and a tick
InitZoom ==
    /\ InitRegistryOfCanvas(<<>>)
    /\ maskBounds = [p \in ProviderHandles |-> ToolbarScreenBounds]
    /\ panX \in ZoomPans /\ panY \in ZoomPans
    /\ zoomLevel \in ZoomLevels
    /\ scaleQ = ScaleOfZoom(zoomLevel)
    /\ canvasDragging = FALSE
    /\ lastPos = Null
    /\ LET r == GridUpdateResult(panX, panY, scaleQ, FreshGrid.bounds, FreshGrid.scale)
       IN  /\ lastDrawnBounds = r.bounds
           /\ lastScale = r.scale
           /\ redrawCount = r.redraws
    /\ NoNodes
    /\ FreshOther
    /\ gridMask = MaskAfterUpdate(consumers, providers, maskBounds, panX, panY, scaleQ,
                                  UpdateMask(0, 0, ScaleDen, <<>>))
    /\ lastOp = [op |-> "init"]

\* ten levels in and out, five levels out, a tenth of a level in and out
ZoomDeltas == {-2500, -25, 25, 1250, 2500}

\* one wheel event on each view, and the ticks
NextZoom ==
    \/ /\ lastOp.op = "init"
       /\ \E d \in ZoomDeltas : \E g \in ZoomPoints : onWheel(d, g)
    \/ tick

SpecZoom == InitZoom /\ [][NextZoom]_vars

\* the world point under the cursor coordinate c before the event lies,
\* after it, under c again: within the pixel to which the offsets are kept
CursorFixed(c, pan, scale, newPan, newScale) ==
    /\ (c - pan) * newScale - (c - newPan) * scale >= 0
    /\ (c - pan) * newScale - (c - newPan) * scale < scale
    /\ newScale = scale => newPan = pan

\* C40: a wheel zoom keeps the world point under the cursor fixed, also
\* when the zoom level is clamped at a bound.
C40_ZoomKeepsCursorPoint ==
    [][\A d \in ZoomDeltas : \A g \in ZoomPoints :
          onWheel(d, g) => /\ CursorFixed(g.x, panX, scaleQ, panX', scaleQ')
                           /\ CursorFixed(g.y, panY, scaleQ, panY', scaleQ')]_vars

\* a zoom about a point away from the origin was cut short at the upper bound
C40_Witness ==
    /\ lastOp.op = "onWheel"
    /\ lastOp.from = ZoomMax - 1
    /\ zoomLevel = ZoomMax
    /\ panX \notin ZoomPans

\* a wheel event at the lower bound left scale and offset as they were
C40_WitnessClamped ==
    /\ lastOp.op = "onWheel"
    /\ lastOp.from = ZoomMin
    /\ zoomLevel = ZoomMin
    /\ panX = 333

====
